---- MODULE Spec2Model ----
(***************************************************************************)
(* A model of modfetch's download pipeline.                                *)
(*                                                                         *)
(*   - DownloadQueue / DownloadManager (src/modfetch/download): the        *)
(*     producer side (enqueue), the worker pool, the retry loop of         *)
(*     download_file, the local copy, start / wait_until_complete / stop   *)
(*     and run.  Specification: Spec (and FairSpec for liveness).          *)
(*   - DependencyResolver (src/modfetch/services/dependency_resolver.py):  *)
(*     the recursive walk over required dependencies.  Specification:      *)
(*     DepSpec (and DepFairSpec for termination).                          *)
(*   - ModFetchOrchestrator (src/modfetch/orchestrator.py) with its        *)
(*     ModResolver: run, _process_version, _process_mods and               *)
(*     _process_dependencies over the game versions and mods of a          *)
(*     configuration.  Specification: OrchSpec (and OrchFairSpec).         *)
(*   - max_concurrent from the configuration to the worker pool.           *)
(*     Specification: PoolSpec.                                            *)
(*   - VersionMatcher.should_include (services/version_matcher.py).        *)
(*     Specification: MatchSpec.                                           *)
(*                                                                         *)
(* The program runs on one asyncio event loop: a coroutine runs without    *)
(* interruption from one suspension point (an await that really waits) to  *)
(* the next, so every action below is the code between two suspension      *)
(* points.  Strings are sequences of characters.                           *)
(***************************************************************************)
EXTENDS Integers, Sequences, FiniteSets, TLC

(***************************************************************************)
(* Bounds of the model.                                                    *)
(***************************************************************************)
\* max_concurrent: the number of workers start() creates.
MaxConcurrent == 2
\* max_retries: download_file makes attempts 0 .. max_retries.
MaxRetries == 2
\* The number of enqueue calls the producer makes.
MaxEnqueue == 3
\* The lookups of one project the model follows (one resolve call issues at
\* most one, so the guard that reads it never holds the code back).
MaxLookups == 2
\* The largest magnitude of a configured max_concurrent.
MaxConfigured == 6

(***************************************************************************)
(* Values.                                                                 *)
(***************************************************************************)
\* Priority.HIGH / NORMAL / LOW (queue.py, class Priority).
HIGH == 0
NORMAL == 1
LOW == 2
\* The default of max_concurrent.
DefaultConcurrent == 5
\* retry_delay, in seconds.
RetryDelay == 1

\* What a destination path holds: nothing, a file whose body was cut short
\* (opened "wb" and not written to its end), or a file with a whole body.
Absent == "absent"
Partial == "partial"
Contents == {"body1", "body2"}

\* hashlib.sha1 over the bytes of a file: distinct bodies have distinct
\* digests (no collision among the model's few bodies).
Digest(body) ==
    CASE body = "body1" -> "sha_body1"
      [] body = "body2" -> "sha_body2"
      [] OTHER -> "sha_partial"

\* expected_sha1 = None (falsy in `if expected_sha1`).
NoSha == "none"

\* "file://" as characters.
FileScheme == <<"f", "i", "l", "e", ":", "/", "/">>

\* Faulty variant: the URL is compared as a whole.
StartsWithFile_WholeUrl(url) == url = FileScheme

\* url.startswith("file://")
StartsWithFile(url) ==
    /\ Len(url) >= Len(FileScheme)
    /\ SubSeq(url, 1, Len(FileScheme)) = FileScheme

\* The arguments of the enqueue calls the producer may make (download_dir
\* and category are the same in all of them, so the destination path of a
\* task is its filename).
Requests ==
    << [url |-> <<"a", ":", "b">>, filename |-> <<"c">>,
        sha1 |-> Digest("body1"), priority |-> NORMAL],
       [url |-> <<"a">>, filename |-> <<"b", ":", "c">>,
        sha1 |-> NoSha, priority |-> HIGH],
       [url |-> FileScheme \o <<"s">>, filename |-> <<"d">>,
        sha1 |-> NoSha, priority |-> LOW],
       [url |-> <<"b">>, filename |-> <<"e">>,
        sha1 |-> NoSha, priority |-> NORMAL] >>

Req == DOMAIN Requests
Workers == 1 .. MaxConcurrent
Filenames == {Requests[r].filename : r \in Req}

VARIABLES
    \* DownloadQueue
    tasks,          \* _tasks: the keys seen
    queue,          \* _queue: the tasks waiting (indices into Requests)
    total_queued,   \* _total_queued
    unfinished,     \* asyncio.Queue._unfinished_tasks
    \* DownloadManager
    stats,          \* DownloadStats (total, completed, failed, skipped)
    failed_downloads, \* _failed_downloads
    started,        \* start() has created the workers
    worker,         \* per worker: pc, task, attempt, cancel requested
    callerpc,       \* where the coroutine that drives the manager is
    session,        \* _session and _owned_session, and the sessions' state
    slept,          \* per request: the delays slept between its attempts
    \* the environment
    disk,           \* destination path -> what it holds
    \* history (read by no action)
    calls,          \* per request: the values its enqueue calls returned
    placed,         \* per request: times a task for it was put on the queue
    outcome,        \* per request: the counters its task was counted in
    gets,           \* per request: HTTP GETs issued for it
    done,           \* per request: task_done calls for its task
    \* DependencyResolver and the API it asks
    graph,          \* per project: the dependencies of the version the API returns
    status,         \* per project: what the API answers for it
    processed,      \* _processed
    dependencies,   \* _dependencies (the project ids of its entries)
    stack,          \* the activations of _resolve_recursive
    cur,            \* the dependency being looked up
    dpc,            \* where resolve is
    plook,          \* per project: get_project requests for it
    vlook,          \* per project: get_version requests for it
    \* ModFetchOrchestrator, its ModResolver and its configuration
    config,         \* mods, version (the target game versions), download
    orch,           \* where run() is, _processed_mods, _skipped_mods,
                    \* _mrpack_files and the history of its enqueue calls,
                    \* manager runs and mrpack file lists
    mod_resolver,   \* ModResolver._cache and the project requests it sent
    \* max_concurrent on its way to the worker pool
    pool,
    \* one call of VersionMatcher.should_include
    match,
    \* one call of FileVerifier.verify_sha1 or FileVerifier.is_valid
    verifier,
    \* one call of ModrinthClient.get_project or ModrinthClient.get_version
    client,
    \* one DependencyResolver instance used by two resolve calls
    resolver,
    \* AsyncDownloader (downloader.py): its queue, counters and workers
    downloader

queueVars == <<tasks, queue, total_queued, unfinished>>
histVars == <<calls, placed, outcome, gets, done>>
mgrVars == <<tasks, queue, total_queued, unfinished, stats, failed_downloads,
             started, worker, callerpc, disk, calls, placed, outcome, gets,
             done, session, slept>>

depVars == <<graph, status, processed, dependencies, stack, cur, dpc, plook,
             vlook>>

orchVars == <<config, orch, mod_resolver>>

vars == <<mgrVars, depVars, orchVars, pool, match, verifier, client,
          resolver, downloader>>

(***************************************************************************)
(* DownloadQueue.put and DownloadManager.enqueue                           *)
(***************************************************************************)
\* task_key = f"{url}:{filename}"
task_key(url, filename) == url \o <<":">> \o filename

\* What the download directory holds before the first call: nothing; the
\* file of request 1 with the expected body and a file for request 2; or a
\* file for request 1 with another body.
NoFiles == [f \in Filenames |-> Absent]
InitDisks ==
    { NoFiles,
      [NoFiles EXCEPT ![<<"c">>] = "body1", ![<<"b", ":", "c">>] = "body2"],
      [NoFiles EXCEPT ![<<"c">>] = "body2"] }

IdleWorker == [pc |-> "get", task |-> 0, attempt |-> 0, cancel |-> FALSE]

\* DownloadManager.__init__ with session = None (injected = "none") or with
\* a session of the caller, open or closed already.  `created` is the
\* session the manager itself has made.
NewSession(injected) ==
    [injected |-> injected, owned_session |-> injected = "none",
     current |-> IF injected = "none" THEN "none" ELSE "injected",
     created |-> "none"]

MgrStart ==
    /\ tasks = {}
    /\ queue = [r \in Req |-> 0]
    /\ total_queued = 0
    /\ unfinished = 0
    /\ stats = [total |-> 0, completed |-> 0, failed |-> 0, skipped |-> 0]
    /\ failed_downloads = <<>>
    /\ started = FALSE
    /\ worker = [w \in Workers |-> IdleWorker]
    /\ callerpc = "idle"
    /\ disk \in InitDisks
    /\ calls = [r \in Req |-> <<>>]
    /\ placed = [r \in Req |-> 0]
    /\ outcome = [r \in Req |-> <<>>]
    /\ gets = [r \in Req |-> 0]
    /\ done = [r \in Req |-> 0]
    /\ slept = [r \in Req |-> <<>>]

MgrInit ==
    /\ MgrStart
    /\ session = NewSession("none")

(***************************************************************************)
(* FileVerifier (download/verifier.py)                                     *)
(***************************************************************************)
\* calc_sha1 returning None.
NoDigest == "no_digest"

\* os.path.exists(file_path)
exists(file_path) == disk[file_path] # Absent

\* FileVerifier.calc_sha1: None for a missing file, else the digest of what
\* the file holds.
calc_sha1(file_path) ==
    IF ~exists(file_path) THEN NoDigest ELSE Digest(disk[file_path])

\* Faulty variant: every file passes.
verify_sha1_Always(file_path, expected_sha1) == TRUE

\* FileVerifier.verify_sha1
verify_sha1(file_path, expected_sha1) ==
    IF expected_sha1 = NoSha
    THEN TRUE
    ELSE IF calc_sha1(file_path) = NoDigest
         THEN FALSE
         ELSE calc_sha1(file_path) = expected_sha1

\* Faulty variant: a file with no expected checksum is never valid.
is_valid_NeedsChecksum(file_path, expected_sha1) ==
    /\ exists(file_path)
    /\ expected_sha1 # NoSha
    /\ verify_sha1(file_path, expected_sha1)

\* FileVerifier.is_valid
is_valid(file_path, expected_sha1) ==
    IF ~exists(file_path)
    THEN FALSE
    ELSE IF expected_sha1 # NoSha
         THEN verify_sha1(file_path, expected_sha1)
         ELSE TRUE

\* The expected checksums of the calls: none, or the digest of a body.
ExpectedSha1s == {NoSha} \cup {Digest(b) : b \in Contents}

VerifierQuiet ==
    verifier = [pc |-> "idle", fn |-> "is_valid", file_path |-> <<"c">>,
                expected_sha1 |-> NoSha, result |-> TRUE]

VerifierCalled ==
    verifier \in [pc : {"called"}, fn : {"verify_sha1", "is_valid"},
                  file_path : Filenames, expected_sha1 : ExpectedSha1s,
                  result : {TRUE}]

\* `await FileVerifier.verify_sha1(file_path, expected_sha1)` returns.
VerifySha1 ==
    /\ verifier.pc = "called"
    /\ verifier.fn = "verify_sha1"
    /\ verifier' = [verifier EXCEPT
                       !.pc = "returned",
                       !.result = verify_sha1(verifier.file_path,
                                              verifier.expected_sha1)]
    /\ UNCHANGED <<mgrVars, depVars, orchVars, pool, match, client, resolver, downloader>>

\* `await FileVerifier.is_valid(file_path, expected_sha1)` returns.
IsValid ==
    /\ verifier.pc = "called"
    /\ verifier.fn = "is_valid"
    /\ verifier' = [verifier EXCEPT
                       !.pc = "returned",
                       !.result = is_valid(verifier.file_path,
                                           verifier.expected_sha1)]
    /\ UNCHANGED <<mgrVars, depVars, orchVars, pool, match, client, resolver, downloader>>

VerifyNext ==
    \/ VerifySha1
    \/ IsValid

(***************************************************************************)
(* DownloadQueue (download/queue.py)                                       *)
(***************************************************************************)
\* `task_key in self._tasks`
IsDuplicate(key) == key \in tasks

\* The tasks asyncio.PriorityQueue.get may return: those of the least
\* priority value among the waiting ones (DownloadTask orders by priority
\* alone).
Waiting == {r \in Req : queue[r] > 0}
\* Faulty variant: any waiting task may be returned (a FIFO queue).
Front_Any == Waiting
Front == {r \in Waiting : \A q \in Waiting : Requests[r].priority <= Requests[q].priority}

NumCalls == Len(calls[1]) + Len(calls[2]) + Len(calls[3]) + Len(calls[4])

\* DownloadManager.enqueue, with DownloadQueue.put inside it.  The queue is
\* unbounded, so `await self._queue.put(task)` never waits and the whole
\* call runs without a suspension.  The producer makes its calls before the
\* workers are started, as the orchestrator does.
Enqueue(r) ==
    LET key == task_key(Requests[r].url, Requests[r].filename)
        added == ~IsDuplicate(key)
    IN  /\ callerpc = "idle"
        /\ ~started
        /\ NumCalls < MaxEnqueue
        /\ calls' = [calls EXCEPT ![r] = Append(@, added)]
        /\ IF added
           THEN /\ tasks' = tasks \cup {key}
                /\ queue' = [queue EXCEPT ![r] = @ + 1]
                /\ unfinished' = unfinished + 1
                /\ total_queued' = total_queued + 1
                /\ stats' = [stats EXCEPT !.total = @ + 1]
                /\ placed' = [placed EXCEPT ![r] = @ + 1]
           ELSE UNCHANGED <<tasks, queue, unfinished, total_queued, stats, placed>>
        /\ UNCHANGED <<failed_downloads, started, worker, callerpc, disk,
                       outcome, gets, done>>
        /\ UNCHANGED slept
        /\ UNCHANGED <<session, depVars, orchVars, pool, match, verifier,
                   client, resolver, downloader>>

(***************************************************************************)
(* DownloadManager.download_file and _worker (download/manager.py)         *)
(***************************************************************************)
\* The worker's state after its task ended (returned or raised an
\* Exception): `finally: task_done()`, `except Exception: pass`, and the
\* loop is back at `await self.queue.get()`.
AfterTask == [pc |-> "get", task |-> 0, attempt |-> 0, cancel |-> FALSE]

\* Faulty variant: the exception ends the worker.
AfterRaise_Dies == [pc |-> "dead", task |-> 0, attempt |-> 0, cancel |-> FALSE]

\* The worker's state after download_file raised DownloadError:
\* `except Exception: pass` keeps the worker in its loop.
AfterRaise == AfterTask

\* Faulty variant: `attempt <= self.max_retries`.
RetriesLeft_OneMore(attempt) == attempt <= MaxRetries

\* `if attempt < self.max_retries`
RetriesLeft(attempt) == attempt < MaxRetries

\* Faulty variant: the handler leaves the file.
RemoveFile_Kept(file_path) == disk

\* `if os.path.exists(file_path): os.remove(file_path)`
RemoveFile(file_path) == [disk EXCEPT ![file_path] = Absent]

\* Faulty variant: the skip path forgets `self.stats.skipped += 1`.
Counted_SkipLost(counter) ==
    IF counter = "skipped" THEN stats ELSE [stats EXCEPT ![counter] = @ + 1]

\* `self.stats.<counter> += 1`
Counted(counter) == [stats EXCEPT ![counter] = @ + 1]

\* Faulty variant: task_done() is not called.
task_done_Lost(t) ==
    /\ UNCHANGED unfinished
    /\ done' = done

\* `finally: self.queue.task_done()` in _worker, for the task of request t.
task_done(t) ==
    /\ unfinished' = unfinished - 1
    /\ done' = [done EXCEPT ![t] = @ + 1]

\* download_file ends for request t with `counter` incremented (it returns,
\* or raises DownloadError), and the worker marks the task done.
Finish(t, counter) ==
    /\ stats' = Counted(counter)
    /\ outcome' = [outcome EXCEPT ![t] = Append(@, counter)]
    /\ task_done(t)

\* The session self._session refers to is closed.
CurrentClosed(ses) ==
    \/ ses.current = "injected" /\ ses.injected = "closed"
    \/ ses.current = "created" /\ ses.created = "closed"

\* The property DownloadManager.session: a new ClientSession is made when
\* there is none or the current one is closed.
SessionProperty(ses) ==
    IF ses.current = "none" \/ CurrentClosed(ses)
    THEN [ses EXCEPT !.current = "created", !.created = "open"]
    ELSE ses

\* The end of stop(): `if self._owned_session and self._session and not
\* self._session.closed: await self._session.close()`
CloseSession(ses) ==
    IF ses.owned_session /\ ses.current # "none" /\ ~CurrentClosed(ses)
    THEN IF ses.current = "created"
         THEN [ses EXCEPT !.created = "closed"]
         ELSE [ses EXCEPT !.injected = "closed"]
    ELSE ses

\* `async with self.session.get(url)`: attempt number `attempt` begins.
StartAttempt(w, t, attempt) ==
    /\ worker' = [worker EXCEPT ![w] =
                    [pc |-> "request", task |-> t, attempt |-> attempt,
                     cancel |-> FALSE]]
    /\ gets' = [gets EXCEPT ![t] = @ + 1]
    /\ session' = SessionProperty(session)

\* What the local source file holds.
LocalBody == "body2"

\* Faulty variant: a worker takes a task while it still handles one.
CanTake_WhileBusy(w) ==
    /\ started
    /\ worker[w].pc # "dead"
    /\ ~worker[w].cancel

\* Worker w is at `await self.queue.get()` in a started manager.
CanTake(w) ==
    /\ started
    /\ worker[w].pc = "get"
    /\ ~worker[w].cancel

\* A worker takes a file:// task: download_file calls _copy_local_file,
\* which copies without a suspension and either counts the task completed
\* or counts it failed and raises DownloadError.
TakeLocal(w) ==
    /\ CanTake(w)
    /\ \E t \in Front :
        /\ StartsWithFile(Requests[t].url)
        /\ queue' = [queue EXCEPT ![t] = @ - 1]
        /\ \/ /\ disk' = [disk EXCEPT ![Requests[t].filename] = LocalBody]
              /\ Finish(t, "completed")
              /\ worker' = [worker EXCEPT ![w] = AfterTask]
           \/ /\ UNCHANGED disk
              /\ Finish(t, "failed")
              /\ worker' = [worker EXCEPT ![w] = AfterRaise]
    /\ UNCHANGED <<tasks, total_queued, failed_downloads, started, callerpc,
                   calls, placed, gets>>
    /\ UNCHANGED slept
    /\ UNCHANGED <<session, depVars, orchVars, pool, match, verifier,
                   client, resolver, downloader>>

\* is_valid suspends only to read the file in calc_sha1: when the file
\* exists and a checksum is expected.
ReadsFile(file_path, expected_sha1) ==
    exists(file_path) /\ expected_sha1 # NoSha

\* A worker takes a remote task.  When is_valid does not suspend, its answer
\* is acted on at once: the task is skipped, or attempt 0 begins.  Otherwise
\* the file is read first.
TakeRemote(w) ==
    /\ CanTake(w)
    /\ \E t \in Front :
        LET file_path == Requests[t].filename
            expected_sha1 == Requests[t].sha1
        IN  /\ ~StartsWithFile(Requests[t].url)
            /\ queue' = [queue EXCEPT ![t] = @ - 1]
            /\ \/ /\ ~ReadsFile(file_path, expected_sha1)
                  /\ IF is_valid(file_path, expected_sha1)
                     THEN /\ Finish(t, "skipped")
                          /\ worker' = [worker EXCEPT ![w] = AfterTask]
                          /\ UNCHANGED <<gets, session>>
                     ELSE /\ StartAttempt(w, t, 0)
                          /\ UNCHANGED <<stats, outcome, unfinished, done>>
               \/ /\ ReadsFile(file_path, expected_sha1)
                  /\ worker' = [worker EXCEPT ![w] =
                                  [pc |-> "check", task |-> t, attempt |-> 0,
                                   cancel |-> FALSE]]
                  /\ UNCHANGED <<stats, outcome, unfinished, done, gets,
                                 session>>
    /\ UNCHANGED <<tasks, total_queued, failed_downloads, started, callerpc,
                   disk, calls, placed>>
    /\ UNCHANGED slept
    /\ UNCHANGED <<depVars, orchVars, pool, match, verifier, client, resolver, downloader>>

\* Faulty variant: a worker goes on although it was cancelled.
Running_IgnoresCancel(w, pc) == worker[w].pc = pc

\* Worker w is suspended at pc and no cancellation was requested for it.
Running(w, pc) ==
    /\ worker[w].pc = pc
    /\ ~worker[w].cancel

\* is_valid has read the existing file.
Check(w) ==
    LET t == worker[w].task
        file_path == Requests[t].filename
    IN  /\ Running(w, "check")
        /\ IF is_valid(file_path, Requests[t].sha1)
           THEN /\ Finish(t, "skipped")
                /\ worker' = [worker EXCEPT ![w] = AfterTask]
                /\ UNCHANGED <<gets, session>>
           ELSE /\ StartAttempt(w, t, 0)
                /\ UNCHANGED <<stats, outcome, unfinished, done>>
        /\ UNCHANGED <<tasks, queue, total_queued, failed_downloads, started,
                       callerpc, disk, calls, placed>>
        /\ UNCHANGED slept
        /\ UNCHANGED <<depVars, orchVars, pool, match, verifier, client, resolver, downloader>>

\* Faulty variant: the same delay before every attempt.
Delay_Constant(attempt) == RetryDelay

\* `delay = self.retry_delay * (2**attempt)`
Delay(attempt) == RetryDelay * 2 ^ attempt

\* Faulty variant: every failed attempt is recorded as a failure of the task.
OnException_RecordsEach(w) ==
    LET t == worker[w].task
        file_path == Requests[t].filename
    IN  /\ disk' = RemoveFile(file_path)
        /\ IF RetriesLeft(worker[w].attempt)
           THEN /\ worker' = [worker EXCEPT ![w].pc = "sleep"]
                /\ slept' = [slept EXCEPT
                                ![t] = Append(@, Delay(worker[w].attempt))]
                /\ stats' = Counted("failed")
                /\ failed_downloads' = Append(failed_downloads, file_path)
                /\ UNCHANGED <<outcome, unfinished, done>>
           ELSE /\ Finish(t, "failed")
                /\ failed_downloads' = Append(failed_downloads, file_path)
                /\ worker' = [worker EXCEPT ![w] = AfterRaise]
                /\ UNCHANGED slept

\* `except Exception as e:` of download_file, for the attempt worker w is
\* in: the file is removed; the worker sleeps before the next attempt, or
\* the task is counted failed, DownloadError is raised and the worker goes
\* on (`except Exception: pass` in _worker).
OnException(w) ==
    LET t == worker[w].task
        file_path == Requests[t].filename
    IN  /\ disk' = RemoveFile(file_path)
        /\ IF RetriesLeft(worker[w].attempt)
           THEN /\ worker' = [worker EXCEPT ![w].pc = "sleep"]
                /\ slept' = [slept EXCEPT
                                ![t] = Append(@, Delay(worker[w].attempt))]
                /\ UNCHANGED <<stats, outcome, unfinished, done,
                               failed_downloads>>
           ELSE /\ Finish(t, "failed")
                /\ failed_downloads' = Append(failed_downloads, file_path)
                /\ worker' = [worker EXCEPT ![w] = AfterRaise]
                /\ UNCHANGED slept

\* The GET fails: the connection fails or the status is not 200.
ResponseError(w) ==
    /\ Running(w, "request")
    /\ OnException(w)
    /\ UNCHANGED <<tasks, queue, total_queued, started, callerpc, calls,
                   placed, gets>>
    /\ UNCHANGED <<session, depVars, orchVars, pool, match, verifier,
                   client, resolver, downloader>>

\* The GET answers 200 and the destination is opened with "wb".
ResponseOk(w) ==
    /\ Running(w, "request")
    /\ disk' = [disk EXCEPT ![Requests[worker[w].task].filename] = Partial]
    /\ worker' = [worker EXCEPT ![w].pc = "write"]
    /\ UNCHANGED <<tasks, queue, total_queued, unfinished, stats,
                   failed_downloads, started, callerpc, calls, placed,
                   outcome, gets, done>>
    /\ UNCHANGED slept
    /\ UNCHANGED <<session, depVars, orchVars, pool, match, verifier,
                   client, resolver, downloader>>

\* The body breaks off while it is streamed to the file.
WriteError(w) ==
    /\ Running(w, "write")
    /\ OnException(w)
    /\ UNCHANGED <<tasks, queue, total_queued, started, callerpc, calls,
                   placed, gets>>
    /\ UNCHANGED <<session, depVars, orchVars, pool, match, verifier,
                   client, resolver, downloader>>

\* The whole body is written and the file closed.
WriteDone(w) ==
    /\ Running(w, "write")
    /\ \E body \in Contents :
         disk' = [disk EXCEPT ![Requests[worker[w].task].filename] = body]
    /\ worker' = [worker EXCEPT ![w].pc = "verify"]
    /\ UNCHANGED <<tasks, queue, total_queued, unfinished, stats,
                   failed_downloads, started, callerpc, calls, placed,
                   outcome, gets, done>>
    /\ UNCHANGED slept
    /\ UNCHANGED <<session, depVars, orchVars, pool, match, verifier,
                   client, resolver, downloader>>

\* `if expected_sha1 and not await verify_sha1(...)`: the written file is
\* removed and DownloadChecksumError raised, or the task is completed.
Verify(w) ==
    LET t == worker[w].task
        file_path == Requests[t].filename
        expected_sha1 == Requests[t].sha1
    IN  /\ Running(w, "verify")
        /\ IF expected_sha1 # NoSha /\ ~verify_sha1(file_path, expected_sha1)
           THEN OnException(w)
           ELSE /\ Finish(t, "completed")
                /\ worker' = [worker EXCEPT ![w] = AfterTask]
                /\ UNCHANGED <<disk, failed_downloads, slept>>
        /\ UNCHANGED <<tasks, queue, total_queued, started, callerpc, calls,
                       placed, gets>>
        /\ UNCHANGED <<session, depVars, orchVars, pool, match, verifier,
                   client, resolver, downloader>>

\* asyncio.sleep(delay) is over: the next attempt begins.
Wake(w) ==
    /\ Running(w, "sleep")
    /\ StartAttempt(w, worker[w].task, worker[w].attempt + 1)
    /\ UNCHANGED <<tasks, queue, total_queued, unfinished, stats,
                   failed_downloads, started, callerpc, disk, calls, placed,
                   outcome, done>>
    /\ UNCHANGED slept
    /\ UNCHANGED <<depVars, orchVars, pool, match, verifier, client, resolver, downloader>>

\* Faulty variant: the cancelled worker leaves without `finally`.
Cancelled_NoTaskDone(w) ==
    /\ worker[w].cancel
    /\ worker[w].pc # "dead"
    /\ UNCHANGED <<unfinished, done>>
    /\ worker' = [worker EXCEPT ![w] =
                    [pc |-> "dead", task |-> 0, attempt |-> 0, cancel |-> FALSE]]
    /\ UNCHANGED <<tasks, queue, total_queued, stats, failed_downloads,
                   started, callerpc, disk, calls, placed, outcome, gets>>
    /\ UNCHANGED slept
    /\ UNCHANGED <<session, depVars, orchVars, pool, match, verifier,
                   client, resolver, downloader>>

\* CancelledError reaches a worker at the await it is suspended in.  At
\* queue.get() the loop breaks.  Inside download_file it is no Exception, so
\* no handler of download_file runs: `finally: task_done()` and the loop
\* breaks.
Cancelled(w) ==
    /\ worker[w].cancel
    /\ worker[w].pc # "dead"
    /\ IF worker[w].pc = "get"
       THEN UNCHANGED <<unfinished, done>>
       ELSE task_done(worker[w].task)
    /\ worker' = [worker EXCEPT ![w] =
                    [pc |-> "dead", task |-> 0, attempt |-> 0, cancel |-> FALSE]]
    /\ UNCHANGED <<tasks, queue, total_queued, stats, failed_downloads,
                   started, callerpc, disk, calls, placed, outcome, gets>>
    /\ UNCHANGED slept
    /\ UNCHANGED <<session, depVars, orchVars, pool, match, verifier,
                   client, resolver, downloader>>

(***************************************************************************)
(* start, stop, run (with wait_until_complete inside it)                   *)
(***************************************************************************)
\* worker.cancel() for every worker.
CancelAll == [w \in Workers |->
                IF worker[w].pc = "dead" THEN worker[w]
                ELSE [worker[w] EXCEPT !.cancel = TRUE]]

\* start()
Start ==
    /\ callerpc = "idle"
    /\ ~started
    /\ started' = TRUE
    /\ UNCHANGED <<queueVars, stats, failed_downloads, worker, callerpc, disk,
                   histVars>>
    /\ UNCHANGED slept
    /\ UNCHANGED <<session, depVars, orchVars, pool, match, verifier,
                   client, resolver, downloader>>

\* stop() is called: the workers are cancelled and gathered.
Stop ==
    /\ callerpc = "idle"
    /\ worker' = IF started THEN CancelAll ELSE worker
    /\ callerpc' = "stop"
    /\ UNCHANGED <<queueVars, stats, failed_downloads, started, disk, histVars>>
    /\ UNCHANGED slept
    /\ UNCHANGED <<session, depVars, orchVars, pool, match, verifier,
                   client, resolver, downloader>>

\* run() is called: start(), then queue.join().
Run ==
    /\ callerpc = "idle"
    /\ ~started
    /\ started' = TRUE
    /\ callerpc' = "run_join"
    /\ UNCHANGED <<queueVars, stats, failed_downloads, worker, disk, histVars>>
    /\ UNCHANGED slept
    /\ UNCHANGED <<session, depVars, orchVars, pool, match, verifier,
                   client, resolver, downloader>>

\* Inside run(): queue.join() returns and stop() cancels the workers.
RunJoinReturn ==
    /\ callerpc = "run_join"
    /\ unfinished = 0
    /\ worker' = CancelAll
    /\ callerpc' = "run_stop"
    /\ UNCHANGED <<queueVars, stats, failed_downloads, started, disk, histVars>>
    /\ UNCHANGED slept
    /\ UNCHANGED <<session, depVars, orchVars, pool, match, verifier,
                   client, resolver, downloader>>

AllDead == \A w \in Workers : worker[w].pc = "dead"

\* asyncio.gather(*self._workers) returns, the session is closed if it is
\* the manager's own, and stop() ends.
StopReturn ==
    /\ callerpc \in {"stop", "run_stop"}
    /\ started => AllDead
    /\ callerpc' = IF callerpc = "stop" THEN "stopped" ELSE "run_done"
    /\ session' = CloseSession(session)
    /\ UNCHANGED <<queueVars, stats, failed_downloads, started, worker, disk,
                   histVars>>
    /\ UNCHANGED slept
    /\ UNCHANGED <<depVars, orchVars, pool, match, verifier, client, resolver, downloader>>

WorkerNext ==
    \E w \in Workers :
        \/ TakeLocal(w)
        \/ TakeRemote(w)
        \/ Check(w)
        \/ ResponseError(w)
        \/ ResponseOk(w)
        \/ WriteError(w)
        \/ WriteDone(w)
        \/ Verify(w)
        \/ Wake(w)
        \/ Cancelled(w)

(***************************************************************************)
(* DependencyResolver (services/dependency_resolver.py) and the answers of *)
(* ModrinthClient it consumes                                              *)
(***************************************************************************)
Projects == {"A", "B", "C"}
\* The project the root version belongs to; the API returns the root
\* version for it.
RootProject == "A"
NoDep == "none"

DependencyInfo(id, type) == [project_id |-> id, dependency_type |-> type]

\* The dependency lists a version may carry.
DepLists ==
    { <<>>,
      <<DependencyInfo("B", "required")>>,
      <<DependencyInfo("A", "required")>>,
      <<DependencyInfo("C", "optional"), DependencyInfo("B", "required")>>,
      <<DependencyInfo("B", "required"), DependencyInfo("C", "required")>>,
      <<DependencyInfo("B", "incompatible"), DependencyInfo("C", "embedded")>>,
      <<DependencyInfo("C", "required"), DependencyInfo("C", "required")>> }

\* What the API answers for a project: the project and a version with a
\* file; 404 for the project; no version; a version without a file; or a
\* status that is neither 200 nor 404 (APIError).
Statuses == {"ok", "no_project", "no_version", "no_file", "error"}

DepIdle ==
    /\ processed = {}
    /\ dependencies = <<>>
    /\ stack = <<>>
    /\ cur = NoDep
    /\ dpc = "idle"
    /\ plook = [p \in Projects |-> 0]
    /\ vlook = [p \in Projects |-> 0]

DepInit ==
    /\ graph \in [Projects -> DepLists]
    /\ status \in [Projects -> Statuses]
    /\ status[RootProject] = "ok"
    /\ DepIdle

\* Faulty variant: only incompatible dependencies are left out.
Followed_AllButIncompatible(dep) == dep.dependency_type # "incompatible"

\* `if dep_type != "required": continue`
Followed(dep) == dep.dependency_type = "required"

\* Faulty variant: the processed-set is not consulted.
AlreadyProcessed_Never(dep_id, proc) == FALSE

\* `if dep_id in self._processed: continue`
AlreadyProcessed(dep_id, proc) == dep_id \in proc

\* Faulty variant: the dependency is not marked before the recursion.
Marked_Not(proc, dep_id) == proc

\* `self._processed.add(dep_id)`
Marked(proc, dep_id) == proc \cup {dep_id}

\* Faulty variant: a project that is not found ends the activation (the
\* remaining dependencies of the version are dropped).
AfterMissing_Return(st) == SubSeq(st, 1, Len(st) - 1)

\* `if not dep_info: continue`: the loop of the same activation goes on.
AfterMissing(st) == st

\* The loop of _resolve_recursive from where it stands to its next await:
\* finished activations return, dependencies that are not followed or are
\* already processed are passed over.  The result is the stack left and the
\* dependency to look up (NoDep when the outermost activation has returned).
RECURSIVE Scan(_, _)
Scan(st, proc) ==
    IF st = <<>>
    THEN [stack |-> <<>>, dep |-> NoDep]
    ELSE LET f == st[Len(st)]
             deps == graph[f.project]
         IN  IF f.i > Len(deps)
             THEN Scan(SubSeq(st, 1, Len(st) - 1), proc)
             ELSE LET dep == deps[f.i]
                      adv == [st EXCEPT ![Len(st)].i = f.i + 1]
                  IN  IF ~Followed(dep) \/ AlreadyProcessed(dep.project_id, proc)
                      THEN Scan(adv, proc)
                      ELSE [stack |-> adv, dep |-> dep.project_id]

\* The walk goes on from stack st: the next dependency is marked processed
\* and get_project is awaited for it, or resolve returns.
Continue(st, proc) ==
    LET n == Scan(st, proc)
    IN  /\ stack' = n.stack
        /\ cur' = n.dep
        /\ IF n.dep = NoDep
           THEN /\ dpc' = "returned"
                /\ processed' = proc
                /\ UNCHANGED plook
           ELSE /\ plook[n.dep] < MaxLookups
                /\ dpc' = "get_project"
                /\ processed' = Marked(proc, n.dep)
                /\ plook' = [plook EXCEPT ![n.dep] = @ + 1]

\* resolve(version_info, ...) is called with the root version.
Resolve ==
    /\ dpc = "idle"
    /\ dependencies' = <<>>
    /\ Continue(<<[project |-> RootProject, i |-> 1]>>, {})
    /\ UNCHANGED <<graph, status, vlook>>
    /\ UNCHANGED <<mgrVars, orchVars, pool, match, verifier, client, resolver, downloader>>

\* `dep_info = await self.client.get_project(dep_id)` returns or raises.
GetProjectReturns ==
    /\ dpc = "get_project"
    /\ \/ /\ status[cur] = "error"
          /\ dpc' = "raised"
          /\ UNCHANGED <<processed, dependencies, stack, cur, plook, vlook>>
       \/ /\ status[cur] = "no_project"
          /\ Continue(AfterMissing(stack), processed)
          /\ UNCHANGED <<dependencies, vlook>>
       \/ /\ status[cur] \notin {"error", "no_project"}
          /\ dpc' = "get_version"
          /\ vlook' = [vlook EXCEPT ![cur] = @ + 1]
          /\ UNCHANGED <<processed, dependencies, stack, cur, plook>>
    /\ UNCHANGED <<graph, status>>
    /\ UNCHANGED <<mgrVars, orchVars, pool, match, verifier, client, resolver, downloader>>

\* `dep_version, dep_file = await self.client.get_version(...)` returns.
GetVersionReturns ==
    /\ dpc = "get_version"
    /\ IF status[cur] = "ok"
       THEN /\ dependencies' = Append(dependencies, cur)
            /\ Continue(Append(stack, [project |-> cur, i |-> 1]), processed)
       ELSE /\ Continue(stack, processed)
            /\ UNCHANGED dependencies
    /\ UNCHANGED <<graph, status, vlook>>
    /\ UNCHANGED <<mgrVars, orchVars, pool, match, verifier, client, resolver, downloader>>

DepNext ==
    \/ Resolve
    \/ GetProjectReturns
    \/ GetVersionReturns

(***************************************************************************)
(* VersionMatcher.should_include (services/version_matcher.py)             *)
(***************************************************************************)
\* A configured value: absent (None), a string, or a list of strings.  The
\* strings are kept in items for all three.
NoValue == [type |-> "none", items |-> <<>>]
StrValue(s) == [type |-> "str", items |-> <<s>>]
ListValue(l) == [type |-> "list", items |-> l]

\* Python's truth value of a configured value: None, "" and [] are false.
Truthy(v) ==
    \/ v.type = "str" /\ v.items[1] # ""
    \/ v.type = "list" /\ v.items # <<>>

\* `if isinstance(x, str): x = [x]`
AsList(v) == v.items

\* `x in l` for a list l
InList(x, l) == \E i \in DOMAIN l : l[i] = x

\* A plain string entry and a dict entry of the configuration.
StrEntry(id) ==
    [kind |-> "str", id |-> id, only_version |-> NoValue, feature |-> NoValue]
DictEntry(id, only_version, feature) ==
    [kind |-> "dict", id |-> id, only_version |-> only_version,
     feature |-> feature]
\* A ModEntry of the configuration: an object with the attributes id (or
\* slug), only_version and feature, which is not a dict.
ModEntry(id, only_version, feature) ==
    [kind |-> "ModEntry", id |-> id, only_version |-> only_version,
     feature |-> feature]

\* Faulty variant: the entry is kept only if all its features are enabled.
Superseded_Required(cfg_features, features) ==
    ~(\A i \in DOMAIN cfg_features : InList(cfg_features[i], features))

\* `all(feature in features for feature in cfg_features)`
Superseded(cfg_features, features) ==
    \A i \in DOMAIN cfg_features : InList(cfg_features[i], features)

\* Faulty variant: the target version is compared the wrong way round.
NotListed_Inverted(version, need_versions) == InList(version, need_versions)

\* `version not in need_versions`
NotListed(version, need_versions) == ~InList(version, need_versions)

should_include(entry, version, features) ==
    IF entry.kind = "dict"
    THEN IF /\ Truthy(entry.only_version)
            /\ NotListed(version, AsList(entry.only_version))
         THEN FALSE
         ELSE IF /\ Truthy(entry.feature)
                 /\ Superseded(AsList(entry.feature), features)
              THEN FALSE
              ELSE TRUE
    ELSE TRUE

GameVersions == {"v1", "v2"}

\* The entries, target versions and enabled features should_include is
\* called with.
MatchValuesOnlyVersion ==
    { NoValue, StrValue("v1"), StrValue(""), ListValue(<<"v1", "v2">>),
      ListValue(<<"v2">>), ListValue(<<>>) }
MatchValuesFeature ==
    { NoValue, StrValue("a"), StrValue(""), ListValue(<<>>),
      ListValue(<<"a">>), ListValue(<<"a", "b">>), ListValue(<<"b", "b">>) }
MatchEntries ==
    {StrEntry("A")} \cup
    {DictEntry("A", o, f) : o \in MatchValuesOnlyVersion, f \in MatchValuesFeature}
MatchFeatures ==
    { <<>>, <<"a">>, <<"b">>, <<"a", "b">>, <<"c", "a">>, <<"", "a">> }

MatchQuiet ==
    match = [pc |-> "idle", entry |-> StrEntry("A"), version |-> "v1",
             features |-> <<>>, result |-> TRUE]

MatchCalled ==
    match \in [pc : {"called"}, entry : MatchEntries, version : GameVersions,
               features : MatchFeatures, result : {TRUE}]

\* should_include(entry, version, features) returns.
ShouldInclude ==
    /\ match.pc = "called"
    /\ match' = [match EXCEPT
                    !.pc = "returned",
                    !.result = should_include(match.entry, match.version,
                                              match.features)]
    /\ UNCHANGED <<mgrVars, depVars, orchVars, pool, verifier, client, resolver, downloader>>

(***************************************************************************)
(* ModrinthClient (services/api_client.py) and APIError (exceptions.py)    *)
(***************************************************************************)
\* The status codes the API answers with.
HttpStatuses == {200, 204, 404, 429, 500}

\* f"{MODRINTH_BASE_URL}/project/{idx}" and
\* f"{MODRINTH_BASE_URL}/project/{idx}/version", as path segments.
ProjectUrl(idx) == <<"project", idx>>
VersionUrl(idx) == <<"project", idx, "version">>

\* The answer to `self.session.get(endpoint, params=params)`.
Response(code, url, json) == [status |-> code, url |-> url, json |-> json]

NoError == [status_code |-> 0, url |-> <<>>]

\* APIError(message, response=response): context["status_code"] and
\* context["url"] are taken from the response.
APIError(response) ==
    [status_code |-> response.status, url |-> response.url]

\* Faulty variant: every answer but 404 is decoded.
request_AnyBody(response) ==
    IF response.status # 404
    THEN [kind |-> "json", json |-> response.json, error |-> NoError]
    ELSE [kind |-> "none", json |-> <<>>, error |-> NoError]

\* ModrinthClient._request: the decoded body on 200, None on 404, APIError
\* otherwise.
request(response) ==
    IF response.status = 200
    THEN [kind |-> "json", json |-> response.json, error |-> NoError]
    ELSE IF response.status = 404
         THEN [kind |-> "none", json |-> <<>>, error |-> NoError]
         ELSE [kind |-> "raise", json |-> <<>>,
               error |-> APIError(response)]

\* What a call of the client gives back: a ProjectInfo (id), a pair of a
\* VersionInfo (id) and a file, None (or the pair of None and None), or an
\* exception.
NoFile == "no_file"
Pending == [kind |-> "pending", id |-> "", file |-> NoFile, error |-> NoError]
Returned(kind, id, file) ==
    [kind |-> kind, id |-> id, file |-> file, error |-> NoError]
ReturnedNone == Returned("none", "", NoFile)
Raised(error) == [kind |-> "raise", id |-> "", file |-> NoFile, error |-> error]

\* ModrinthClient.get_project
get_project(response) ==
    LET r == request(response)
    IN  IF r.kind = "raise" THEN Raised(r.error)
        ELSE IF r.kind = "none" THEN ReturnedNone
        ELSE Returned("project", r.json.id, NoFile)

\* The index of the first file marked primary, 0 if there is none.
RECURSIVE FirstPrimary(_, _)
FirstPrimary(files, i) ==
    IF i > Len(files) THEN 0
    ELSE IF files[i].primary THEN i
    ELSE FirstPrimary(files, i + 1)

\* ModrinthClient._get_primary_file
get_primary_file(version) ==
    IF version.files = <<>> THEN NoFile
    ELSE IF FirstPrimary(version.files, 1) # 0
         THEN version.files[FirstPrimary(version.files, 1)].filename
         ELSE version.files[1].filename

\* specific_version = None
NoSpecific == "none"

\* The index of the first version from i on whose id or version_number is
\* specific_version, 0 if there is none.
RECURSIVE FirstMatch(_, _, _)
FirstMatch(versions, specific_version, i) ==
    IF i > Len(versions) THEN 0
    ELSE IF \/ versions[i].id = specific_version
            \/ versions[i].version_number = specific_version
         THEN i
         ELSE FirstMatch(versions, specific_version, i + 1)

\* ModrinthClient.get_version
get_version(response, specific_version) ==
    LET r == request(response)
    IN  IF r.kind = "raise" THEN Raised(r.error)
        ELSE IF r.kind = "none" \/ Len(r.json) = 0 THEN ReturnedNone
        ELSE LET m == IF specific_version # NoSpecific
                      THEN FirstMatch(r.json, specific_version, 1)
                      ELSE 0
                 version == IF m # 0 THEN r.json[m] ELSE r.json[1]
             IN  Returned("version", version.id, get_primary_file(version))

\* The bodies the API answers with: a project document, and the lists of
\* versions left by the filter on game version and loader.
ProjectJson == [id |-> "P1", slug |-> "a"]
File(filename, primary) == [filename |-> filename, primary |-> primary]
Version1 ==
    [id |-> "i1", version_number |-> "1.0",
     files |-> <<File("f1", FALSE), File("f2", TRUE)>>]
Version2 ==
    [id |-> "i2", version_number |-> "2.0", files |-> <<File("g1", FALSE)>>]
Version3 == [id |-> "i3", version_number |-> "3.0", files |-> <<>>]
VersionLists ==
    { <<>>, <<Version1>>, <<Version2, Version1>>, <<Version3, Version2>>,
      <<Version1, Version2, Version3>> }
SpecificVersions == {NoSpecific, "i1", "2.0", "3.0", "9.9"}

ClientQuiet ==
    client = [pc |-> "idle", fn |-> "get_project", idx |-> "A",
              status |-> 200, versions |-> <<>>,
              specific_version |-> NoSpecific, result |-> Pending]

ClientCalled ==
    \/ client \in [pc : {"called"}, fn : {"get_project"}, idx : {"A", "x"},
                    status : HttpStatuses, versions : {<<>>},
                    specific_version : {NoSpecific}, result : {Pending}]
    \/ client \in [pc : {"called"}, fn : {"get_version"}, idx : {"A"},
                    status : HttpStatuses, versions : VersionLists,
                    specific_version : SpecificVersions, result : {Pending}]

\* `await client.get_project(idx)` returns or raises.
GetProject ==
    /\ client.pc = "called"
    /\ client.fn = "get_project"
    /\ client' = [client EXCEPT
                     !.pc = "returned",
                     !.result = get_project(Response(client.status,
                                                     ProjectUrl(client.idx),
                                                     ProjectJson))]
    /\ UNCHANGED <<mgrVars, depVars, orchVars, pool, match, verifier,
                   resolver, downloader>>

\* `await client.get_version(idx, mc_version, mod_loader, specific_version)`
\* returns or raises.
GetVersion ==
    /\ client.pc = "called"
    /\ client.fn = "get_version"
    /\ client' = [client EXCEPT
                     !.pc = "returned",
                     !.result = get_version(Response(client.status,
                                                     VersionUrl(client.idx),
                                                     client.versions),
                                            client.specific_version)]
    /\ UNCHANGED <<mgrVars, depVars, orchVars, pool, match, verifier,
                   resolver, downloader>>

ClientNext ==
    \/ GetProject
    \/ GetVersion

(***************************************************************************)
(* max_concurrent from the configuration to the worker pool                *)
(* (ModFetch.__init__ and download_loop in core.py; ModFetchConfig,        *)
(* ModFetchOrchestrator._process_version and DownloadManager.start)        *)
(***************************************************************************)
\* A configured max_concurrent: an int, a bool, a str, a float (n is its
\* integer part), None, or no key at all.
IntValue(n) == [type |-> "int", n |-> n]
RawValues ==
    {IntValue(n) : n \in (0 - MaxConfigured) .. MaxConfigured} \cup
    { [type |-> "bool", n |-> 0], [type |-> "bool", n |-> 1],
      [type |-> "str", n |-> 3], [type |-> "str", n |-> 0],
      [type |-> "float", n |-> 2], [type |-> "float", n |-> 0],
      [type |-> "none", n |-> 0], [type |-> "missing", n |-> 0] }

\* isinstance(v, int): bool is a subclass of int.
IsInt(v) == v.type \in {"int", "bool"}

\* `config.get("max_concurrent", 5)`
ConfigGet(raw) == IF raw.type = "missing" THEN IntValue(DefaultConcurrent) ELSE raw

\* Faulty variant: only the type is checked.
Invalid_TypeOnly(v) == ~IsInt(v)

\* `not isinstance(self.max_concurrent, int) or self.max_concurrent <= 0`
Invalid(v) == ~IsInt(v) \/ v.n <= 0

\* ModFetch.__init__: the value kept and whether the warning is printed.
ModFetch_max_concurrent(raw) ==
    IF Invalid(ConfigGet(raw))
    THEN [value |-> IntValue(DefaultConcurrent), warned |-> TRUE]
    ELSE [value |-> ConfigGet(raw), warned |-> FALSE]

\* ModFetchConfig.max_concurrent for the orchestrator (the configuration
\* model): the same rule.
ModFetchConfig_max_concurrent(raw) ==
    IF ~IsInt(ConfigGet(raw)) \/ ConfigGet(raw).n <= 0
    THEN [value |-> IntValue(DefaultConcurrent), warned |-> TRUE]
    ELSE [value |-> ConfigGet(raw), warned |-> FALSE]

PoolQuiet ==
    pool = [pc |-> "idle", driver |-> "ModFetch", raw |-> IntValue(1),
            max_concurrent |-> IntValue(1), warned |-> FALSE, workers |-> 0]

PoolConfigured ==
    pool \in [pc : {"config"}, driver : {"ModFetch", "Orchestrator"},
              raw : RawValues, max_concurrent : {IntValue(0)},
              warned : {FALSE}, workers : {0}]

\* ModFetch(config), or ModFetchConfig.from_dict and, in _process_version,
\* DownloadManager(max_concurrent=self.config.max_concurrent).
Construct ==
    /\ pool.pc = "config"
    /\ LET c == IF pool.driver = "ModFetch"
                THEN ModFetch_max_concurrent(pool.raw)
                ELSE ModFetchConfig_max_concurrent(pool.raw)
       IN  pool' = [pool EXCEPT !.pc = "constructed",
                                !.max_concurrent = c.value,
                                !.warned = c.warned]
    /\ UNCHANGED <<mgrVars, depVars, orchVars, match, verifier, client, resolver, downloader>>

\* download_loop / DownloadManager.start: one worker task per element of
\* range(self.max_concurrent); range raises TypeError on a value that is no
\* integer and is empty for an integer below 1.
StartWorkers ==
    /\ pool.pc = "constructed"
    /\ IF IsInt(pool.max_concurrent)
       THEN pool' = [pool EXCEPT
                        !.pc = "started",
                        !.workers = IF pool.max_concurrent.n > 0
                                    THEN pool.max_concurrent.n ELSE 0]
       ELSE pool' = [pool EXCEPT !.pc = "type_error"]
    /\ UNCHANGED <<mgrVars, depVars, orchVars, match, verifier, client, resolver, downloader>>

PoolNext == Construct \/ StartWorkers

(***************************************************************************)
(* ModResolver (services/mod_resolver.py) and ModFetchOrchestrator         *)
(* (orchestrator.py): run, _process_version, _process_mods and             *)
(* _process_dependencies, with mods only in the configuration.  One        *)
(* coroutine runs all of it; the download manager of a version is          *)
(* represented by the enqueue calls it receives and by its run().          *)
(***************************************************************************)
\* What a configured mod is named by: a project id, the slug of project A,
\* or a name the API does not know.
Identifiers == Projects \cup {"a", "x"}
NoProject == "none"
ProjectOf(id) ==
    IF id \in Projects THEN id ELSE IF id = "a" THEN "A" ELSE NoProject

\* What the API answers to the lookup of an identifier.
LookupStatus(id) ==
    IF ProjectOf(id) = NoProject THEN "no_project" ELSE status[ProjectOf(id)]

\* Faulty variant: a 404 answer raises like any other non-200 answer.
RequestOutcome_404Raises(st) ==
    IF st \in {"error", "no_project"} THEN "raise" ELSE "json"

\* ModrinthClient._request for a project: the JSON document on 200, None
\* on 404, APIError otherwise.
RequestOutcome(st) ==
    IF st = "error" THEN "raise"
    ELSE IF st = "no_project" THEN "none"
    ELSE "json"

\* The configurations and the dependency graphs of the orchestrator's runs.
OrchMods ==
    { <<StrEntry("A")>>,
      <<StrEntry("A"), StrEntry("a")>>,
      <<StrEntry("x"), StrEntry("A")>>,
      <<StrEntry("A"), StrEntry("B")>>,
      <<StrEntry("B"), StrEntry("x"), StrEntry("C")>>,
      <<StrEntry("C"), StrEntry("A")>>,
      <<ModEntry("A", StrValue("v2"), NoValue), StrEntry("B")>>,
      <<StrEntry("B"), ModEntry("A", NoValue, ListValue(<<"a">>))>> }
OrchFeatures == { <<>>, <<"a">> }
OrchVersions == { <<"v1">>, <<"v1", "v2">> }
OrchGraphs ==
    { [p \in Projects |-> <<>>],
      [p \in Projects |->
          IF p = "A" THEN <<DependencyInfo("B", "required")>> ELSE <<>>],
      [p \in Projects |->
          IF p = "A" THEN <<DependencyInfo("B", "required")>>
          ELSE IF p = "B" THEN <<DependencyInfo("A", "required")>>
          ELSE <<>>],
      [p \in Projects |->
          IF p = "A" THEN <<DependencyInfo("B", "required"),
                            DependencyInfo("C", "required")>>
          ELSE IF p = "B" THEN <<DependencyInfo("C", "required")>>
          ELSE <<>>] }

\* ModFetchOrchestrator.__init__
NewOrchestrator ==
    [pc |-> "init", vi |-> 1, mi |-> 1, processed_mods |-> {},
     skipped_mods |-> <<>>, enqueued |-> <<>>, added |-> <<>>, ran |-> <<>>,
     mrpack_files |-> <<>>, handed |-> <<>>]
\* ModResolver.__init__ (lookups counts the project requests it sends)
NewModResolver == [cache |-> {}, lookups |-> [id \in Identifiers |-> 0]]

OrchQuiet ==
    /\ config = [mods |-> <<StrEntry("A")>>, version |-> <<"v1">>,
                 download |-> TRUE, features |-> <<>>]
    /\ orch = [NewOrchestrator EXCEPT !.pc = "idle"]
    /\ mod_resolver = NewModResolver

OrchInit ==
    /\ config \in [mods : OrchMods, version : OrchVersions,
                   download : BOOLEAN, features : OrchFeatures]
    /\ orch = NewOrchestrator
    /\ mod_resolver = NewModResolver

\* _should_include(entry, version)
OrchIncludes(entry, version) == should_include(entry, version, config.features)

\* `mod_id = mod` for a string, `mod.id or mod.slug` for a ModEntry
\* (ModResolver.resolve)
ModId(mod) == mod.id

\* The index of the first mod from i on that the filter lets through.
RECURSIVE NextIncluded(_, _)
NextIncluded(v, i) ==
    IF i > Len(config.mods) THEN i
    ELSE IF OrchIncludes(config.mods[i], config.version[v]) THEN i
    ELSE NextIncluded(v, i + 1)

\* Faulty variant: the set is not consulted.
InProcessed_Never(id, proc) == FALSE

\* `project_info.id in self._processed_mods`
InProcessed(id, proc) == id \in proc

\* The processed-set a version pass begins with: run and _process_version
\* do not touch self._processed_mods.
AtVersionStart(proc) == proc

\* `self._skipped_mods.append(str(mod))`
Skipped(list, mod) == Append(list, ModId(mod))

\* The loop of _process_mods of version v arrives at mod j: past the last
\* mod the download manager is run (no resource packs, shader packs or extra
\* URLs are configured); otherwise ModResolver.resolve runs up to its first
\* await, the project request, or the version request on a cache hit.
GoToMod(o, v, j) ==
    IF j > Len(config.mods)
    THEN /\ orch' = [o EXCEPT !.pc = "run_manager", !.vi = v, !.mi = j]
         /\ UNCHANGED mod_resolver
    ELSE IF ModId(config.mods[j]) \in mod_resolver.cache
    THEN /\ orch' = [o EXCEPT !.pc = "mod_version", !.vi = v, !.mi = j]
         /\ UNCHANGED mod_resolver
    ELSE /\ orch' = [o EXCEPT !.pc = "mod_project", !.vi = v, !.mi = j]
         /\ mod_resolver' =
              [mod_resolver EXCEPT !.lookups[ModId(config.mods[j])] = @ + 1]

\* `continue` in _process_mods
NextMod(o) == GoToMod(o, o.vi, NextIncluded(o.vi, o.mi + 1))

\* run(): _validate_config, then _process_version of the first version up to
\* the first await of _process_mods.
RunOrchestrator ==
    /\ orch.pc = "init"
    /\ IF config.version = <<>> \/ config.mods = <<>>
       THEN /\ orch' = [orch EXCEPT !.pc = "raised"]
            /\ UNCHANGED mod_resolver
       ELSE GoToMod([orch EXCEPT !.processed_mods = AtVersionStart(@)],
                    1, NextIncluded(1, 1))
    /\ UNCHANGED <<config, mgrVars, depVars, pool, match, verifier, client, resolver, downloader>>

\* `project_info = await self.client.get_project(mod_id)` is over.
ModProjectReturns ==
    /\ orch.pc = "mod_project"
    /\ LET mod == config.mods[orch.mi]
           out == RequestOutcome(LookupStatus(ModId(mod)))
       IN  CASE out = "raise" ->
                  /\ orch' = [orch EXCEPT !.pc = "raised"]
                  /\ UNCHANGED mod_resolver
             [] out = "none" ->
                  NextMod([orch EXCEPT
                             !.skipped_mods = Skipped(@, mod)])
             [] OTHER ->
                  /\ orch' = [orch EXCEPT !.pc = "mod_version"]
                  /\ mod_resolver' =
                       [mod_resolver EXCEPT !.cache = @ \cup {ModId(mod)}]
    /\ UNCHANGED <<config, mgrVars, depVars, pool, match, verifier, client, resolver, downloader>>

\* The records [version |-> v, project |-> p] of the projects of list l.
ForVersion(v, l) == [i \in DOMAIN l |-> [version |-> v, project |-> l[i]]]

\* The orchestrator adds the projects of list l to the processed-set,
\* records the file of each in _mrpack_files (the file resolved for the
\* game version of the pass) and enqueues a file for each
\* (`should_download`).
Take(o, l) ==
    [o EXCEPT !.processed_mods = @ \cup {l[i] : i \in DOMAIN l},
              !.added = @ \o ForVersion(o.vi, l),
              !.mrpack_files = @ \o ForVersion(o.vi, l),
              !.enqueued = IF config.download
                           THEN @ \o ForVersion(o.vi, l) ELSE @]

\* The call of DependencyResolver.resolve with the version of project p, up
\* to its first await.
CallResolve(p) ==
    /\ dependencies' = <<>>
    /\ Continue(<<[project |-> p, i |-> 1]>>, {})
    /\ UNCHANGED <<graph, status, vlook>>

\* `version_info, file_info = await self.client.get_version(...)` is over;
\* a mod that resolved and is not processed yet is taken and
\* _process_dependencies calls the dependency resolver.
ModVersionReturns ==
    /\ orch.pc = "mod_version"
    /\ LET mod == config.mods[orch.mi]
           p == ProjectOf(ModId(mod))
       IN  CASE status[p] = "error" ->
                  /\ orch' = [orch EXCEPT !.pc = "raised"]
                  /\ UNCHANGED <<mod_resolver, depVars>>
             [] status[p] = "ok" ->
                  IF InProcessed(p, orch.processed_mods)
                  THEN /\ NextMod(orch)
                       /\ UNCHANGED depVars
                  ELSE /\ orch' = [Take(orch, <<p>>) EXCEPT !.pc = "deps"]
                       /\ CallResolve(p)
                       /\ UNCHANGED mod_resolver
             [] OTHER ->
                  /\ NextMod([orch EXCEPT !.skipped_mods = Skipped(@, mod)])
                  /\ UNCHANGED depVars
    /\ UNCHANGED <<config, mgrVars, pool, match, verifier, client, resolver, downloader>>

\* The dependencies of list deps that the loop of _process_dependencies
\* takes, in order, beginning with processed-set proc.
RECURSIVE NewDeps(_, _)
NewDeps(deps, proc) ==
    IF deps = <<>> THEN <<>>
    ELSE IF InProcessed(Head(deps), proc) THEN NewDeps(Tail(deps), proc)
    ELSE <<Head(deps)>> \o NewDeps(Tail(deps), proc \cup {Head(deps)})

\* `deps = await self.dep_resolver.resolve(...)` is over and the loop of
\* _process_dependencies has run; _process_mods goes on.
DepsReturned ==
    /\ orch.pc = "deps"
    /\ dpc = "returned"
    /\ NextMod(Take(orch, NewDeps(dependencies, orch.processed_mods)))
    /\ dpc' = "idle"
    /\ plook' = [p \in Projects |-> 0]
    /\ vlook' = [p \in Projects |-> 0]
    /\ UNCHANGED <<graph, status, processed, dependencies, stack, cur>>
    /\ UNCHANGED <<config, mgrVars, pool, match, verifier, client, resolver, downloader>>

\* The APIError of a dependency lookup leaves _process_dependencies,
\* _process_mods, _process_version and run.
DepsRaised ==
    /\ orch.pc = "deps"
    /\ dpc = "raised"
    /\ orch' = [orch EXCEPT !.pc = "raised"]
    /\ dpc' = "idle"
    /\ UNCHANGED <<graph, status, processed, dependencies, stack, cur, plook,
                   vlook>>
    /\ UNCHANGED <<config, mod_resolver, mgrVars, pool, match, verifier, client, resolver, downloader>>

\* `files=self._mrpack_files if mode == MrpackMode.REFERENCE else None`: what
\* _generate_mrpack_for_version hands to MrpackBuilder.build in REFERENCE
\* mode.
FilesArgument(o) == o.mrpack_files

\* `await self.download_manager.run()` returns and the outputs of the
\* version are generated (orch.handed keeps the file list of the REFERENCE
\* mrpack of each version); the next version pass begins with a new download
\* manager, or run() ends.
ManagerRuns ==
    /\ orch.pc = "run_manager"
    /\ LET o == [orch EXCEPT
                   !.ran = Append(@, orch.vi),
                   !.handed = Append(@, [version |-> orch.vi,
                                         files |-> FilesArgument(orch)])]
       IN  IF orch.vi < Len(config.version)
           THEN GoToMod([o EXCEPT !.processed_mods = AtVersionStart(@)],
                        orch.vi + 1, NextIncluded(orch.vi + 1, 1))
           ELSE /\ orch' = [o EXCEPT !.pc = "done"]
                /\ UNCHANGED mod_resolver
    /\ UNCHANGED <<config, mgrVars, depVars, pool, match, verifier, client, resolver, downloader>>

OrchNext ==
    \/ RunOrchestrator
    \/ ModProjectReturns
    \/ ModVersionReturns
    \/ GetProjectReturns
    \/ GetVersionReturns
    \/ DepsReturned
    \/ DepsRaised
    \/ ManagerRuns

(***************************************************************************)
(* One DependencyResolver instance that answers two resolve calls (two     *)
(* coroutines of one event loop) and a clear_cache call                    *)
(***************************************************************************)
Callers == {1, 2}
\* The projects whose versions the calls are given as root version.
Roots == {"A", "B"}

NoCall == [pc |-> "idle", root |-> NoDep, stack |-> <<>>, cur |-> NoDep,
           result |-> <<>>]

\* `self._processed: Set[str] = set()`, `self._dependencies = []`
ResolverQuiet ==
    resolver = [processed |-> {}, dependencies |-> <<>>,
                call |-> [c \in Callers |-> NoCall], cleared |-> FALSE]

\* `return self._dependencies`: the caller is handed the list object the
\* instance keeps, so what the list of a returned call holds now is what
\* the instance's list holds now.
ReturnedList(c) == resolver.dependencies

\* The walk of call c goes on from stack st with the instance's set proc
\* and list deps: the next dependency is marked and looked up, or the call
\* returns the list (result keeps what it held at that moment).
Walk(c, st, proc, deps) ==
    LET n == Scan(st, proc)
    IN  resolver' =
          [resolver EXCEPT
             !.processed = IF n.dep = NoDep THEN proc ELSE Marked(proc, n.dep),
             !.dependencies = deps,
             !.call[c] =
                 [@ EXCEPT !.pc = IF n.dep = NoDep THEN "returned"
                                  ELSE "get_project",
                           !.stack = n.stack,
                           !.cur = n.dep,
                           !.result = IF n.dep = NoDep THEN deps ELSE @]]

\* resolve(version_info, ...): `self._processed.clear()`,
\* `self._dependencies.clear()`, then the walk up to its first await.
ResolveCall(c) ==
    /\ resolver.call[c].pc = "idle"
    /\ \E root \in Roots :
         /\ status[root] = "ok"
         /\ resolver' =
              [resolver EXCEPT
                 !.processed =
                     LET n == Scan(<<[project |-> root, i |-> 1]>>, {})
                     IN  IF n.dep = NoDep THEN {} ELSE Marked({}, n.dep),
                 !.dependencies = <<>>,
                 !.call[c] =
                     LET n == Scan(<<[project |-> root, i |-> 1]>>, {})
                     IN  [pc |-> IF n.dep = NoDep THEN "returned"
                                 ELSE "get_project",
                          root |-> root,
                          stack |-> n.stack,
                          cur |-> n.dep,
                          result |-> <<>>]]
    /\ UNCHANGED <<mgrVars, depVars, orchVars, pool, match, verifier, client,
                   downloader>>

\* `dep_info = await self.client.get_project(dep_id)` of call c returns or
\* raises.
CallGetProjectReturns(c) ==
    LET k == resolver.call[c]
    IN  /\ k.pc = "get_project"
        /\ \/ /\ status[k.cur] = "error"
              /\ resolver' = [resolver EXCEPT !.call[c].pc = "raised"]
           \/ /\ status[k.cur] = "no_project"
              /\ Walk(c, AfterMissing(k.stack), resolver.processed,
                      resolver.dependencies)
           \/ /\ status[k.cur] \notin {"error", "no_project"}
              /\ resolver' = [resolver EXCEPT !.call[c].pc = "get_version"]
        /\ UNCHANGED <<mgrVars, depVars, orchVars, pool, match, verifier,
                       client, downloader>>

\* `dep_version, dep_file = await self.client.get_version(...)` of call c
\* returns.
CallGetVersionReturns(c) ==
    LET k == resolver.call[c]
    IN  /\ k.pc = "get_version"
        /\ IF status[k.cur] = "ok"
           THEN Walk(c, Append(k.stack, [project |-> k.cur, i |-> 1]),
                     resolver.processed,
                     Append(resolver.dependencies, k.cur))
           ELSE Walk(c, k.stack, resolver.processed, resolver.dependencies)
        /\ UNCHANGED <<mgrVars, depVars, orchVars, pool, match, verifier,
                       client, downloader>>

\* clear_cache(): `self._processed.clear()`, `self._dependencies.clear()`
ClearCache ==
    /\ ~resolver.cleared
    /\ resolver' = [resolver EXCEPT !.processed = {},
                                    !.dependencies = <<>>,
                                    !.cleared = TRUE]
    /\ UNCHANGED <<mgrVars, depVars, orchVars, pool, match, verifier, client,
                   downloader>>

ResolverNext ==
    \/ \E c \in Callers :
         \/ ResolveCall(c)
         \/ CallGetProjectReturns(c)
         \/ CallGetVersionReturns(c)
    \/ ClearCache

(***************************************************************************)
(* AsyncDownloader (downloader.py): enqueue_download, start, the workers   *)
(* and wait_until_complete                                                 *)
(***************************************************************************)
\* The tasks are numbered in the order of their enqueue_download calls.
DTasks == 1 .. MaxEnqueue
DWorkers == 1 .. MaxConcurrent

\* What download_file does for a task: it completes the download; the
\* download fails and _handle_download_error records it; or os.makedirs
\* raises (the download directory cannot be created), outside every try of
\* download_file.
Fates == {"ok", "fails", "raises"}

\* `self.download_queue = asyncio.Queue()`, `self.active_downloads = 0`, ...
DownloaderQuiet ==
    downloader =
        [download_queue |-> <<>>, unfinished |-> 0, active_downloads |-> 0,
         completed_downloads |-> 0, failed_downloads |-> <<>>,
         is_running |-> FALSE,
         workers |-> [w \in DWorkers |-> [pc |-> "none", task |-> 0]],
         waiter |-> "idle", enqueued |-> 0,
         fate |-> [t \in DTasks |-> "ok"],
         decrements |-> [t \in DTasks |-> 0],
         task_dones |-> [t \in DTasks |-> 0],
         returned_at |-> 0]

\* asyncio.Queue.task_done: `if self._unfinished_tasks <= 0: raise
\* ValueError('task_done() called too many times')`
TaskDoneRaises(unfinished_tasks) == unfinished_tasks <= 0

\* `self.active_downloads -= 1` and `self.download_queue.task_done()` for
\* the task of worker w, as they stand in the finally block and again in
\* the `except Exception` handler.  The result is the downloader after
\* them; the worker goes to pc ok when task_done returns and to pc raised
\* when it raises.
Release(d, w, ok, raised) ==
    LET t == d.workers[w].task
        r == TaskDoneRaises(d.unfinished)
    IN  [d EXCEPT !.active_downloads = @ - 1,
                  !.unfinished = IF r THEN @ ELSE @ - 1,
                  !.decrements[t] = @ + 1,
                  !.task_dones[t] = @ + 1,
                  !.workers[w].pc = IF r THEN raised ELSE ok]

\* enqueue_download: `await self.download_queue.put(task)`
EnqueueDownload ==
    /\ downloader.enqueued < MaxEnqueue
    /\ \E f \in Fates :
         downloader' =
           [downloader EXCEPT
              !.enqueued = @ + 1,
              !.download_queue = Append(@, downloader.enqueued + 1),
              !.unfinished = @ + 1,
              !.fate[downloader.enqueued + 1] = f]
    /\ UNCHANGED <<mgrVars, depVars, orchVars, pool, match, verifier, client,
                   resolver>>

\* start(): `self._is_running = True` and one worker task per slot.
DownloaderStart ==
    /\ ~downloader.is_running
    /\ downloader' =
         [downloader EXCEPT
            !.is_running = TRUE,
            !.workers = [w \in DWorkers |-> [pc |-> "get", task |-> 0]]]
    /\ UNCHANGED <<mgrVars, depVars, orchVars, pool, match, verifier, client,
                   resolver>>

\* `task = await self.download_queue.get()`, `self.active_downloads += 1`
\* and download_file up to its first await.  When os.makedirs raises, the
\* finally block runs and the exception reaches `except Exception`, whose
\* first statement awaits _safe_print.
WorkerGets(w) ==
    /\ downloader.workers[w].pc = "get"
    /\ downloader.download_queue # <<>>
    /\ LET t == Head(downloader.download_queue)
           d == [downloader EXCEPT
                   !.download_queue = Tail(@),
                   !.active_downloads = @ + 1,
                   !.workers[w] = [pc |-> "download", task |-> t]]
       IN  downloader' =
             IF downloader.fate[t] = "raises"
             THEN Release(d, w, "handler", "handler")
             ELSE d
    /\ UNCHANGED <<mgrVars, depVars, orchVars, pool, match, verifier, client,
                   resolver>>

\* download_file returns (the download is complete, or its error has been
\* recorded by _handle_download_error); the finally block runs.  A
\* ValueError of task_done reaches `except Exception`.
DownloadFileReturns(w) ==
    /\ downloader.workers[w].pc = "download"
    /\ LET t == downloader.workers[w].task
           d == IF downloader.fate[t] = "ok"
                THEN [downloader EXCEPT !.completed_downloads = @ + 1]
                ELSE [downloader EXCEPT !.failed_downloads = Append(@, t)]
       IN  downloader' = Release(d, w, "get", "handler")
    /\ UNCHANGED <<mgrVars, depVars, orchVars, pool, match, verifier, client,
                   resolver>>

\* The `except Exception` handler after its _safe_print: the decrement and
\* task_done once more.  A ValueError raised here leaves the loop and ends
\* the worker.
WorkerHandles(w) ==
    /\ downloader.workers[w].pc = "handler"
    /\ downloader' = Release(downloader, w, "get", "dead")
    /\ UNCHANGED <<mgrVars, depVars, orchVars, pool, match, verifier, client,
                   resolver>>

\* wait_until_complete(): `await self.download_queue.join()`
WaitUntilComplete ==
    /\ downloader.waiter = "idle"
    /\ downloader.is_running
    /\ downloader' = [downloader EXCEPT !.waiter = "join"]
    /\ UNCHANGED <<mgrVars, depVars, orchVars, pool, match, verifier, client,
                   resolver>>

\* join returns when no task is unfinished; returned_at keeps how many
\* tasks had been enqueued by then.
JoinReturns ==
    /\ downloader.waiter = "join"
    /\ downloader.unfinished = 0
    /\ downloader' = [downloader EXCEPT !.waiter = "returned",
                                        !.returned_at = downloader.enqueued]
    /\ UNCHANGED <<mgrVars, depVars, orchVars, pool, match, verifier, client,
                   resolver>>

DownloaderNext ==
    \/ EnqueueDownload
    \/ DownloaderStart
    \/ \E w \in DWorkers :
         \/ WorkerGets(w)
         \/ DownloadFileReturns(w)
         \/ WorkerHandles(w)
    \/ WaitUntilComplete
    \/ JoinReturns

\* No dependency resolution goes on beside the download manager.
DepQuiet ==
    /\ graph = [p \in Projects |-> <<>>]
    /\ status = [p \in Projects |-> "ok"]
    /\ DepIdle

\* One call of resolve, on any of the graphs.
DepSpecInit ==
    /\ MgrInit
    /\ disk = NoFiles
    /\ DepInit
    /\ OrchQuiet
    /\ PoolQuiet
    /\ MatchQuiet
    /\ VerifierQuiet
    /\ ClientQuiet
    /\ ResolverQuiet
    /\ DownloaderQuiet

DepSpec == DepSpecInit /\ [][DepNext]_vars

\* Each API call returns (or raises): an awaited lookup is answered.
DepFairSpec == DepSpec /\ WF_vars(DepNext)

\* Two resolve calls and a clear_cache call on one resolver instance, on any
\* of the graphs; each project is found, not found, or its lookup fails.
ResolverSpecInit ==
    /\ MgrInit
    /\ disk = NoFiles
    /\ DepInit
    /\ \A p \in Projects : status[p] \in {"ok", "no_project", "error"}
    /\ OrchQuiet
    /\ PoolQuiet
    /\ MatchQuiet
    /\ VerifierQuiet
    /\ ClientQuiet
    /\ ResolverQuiet
    /\ DownloaderQuiet

ResolverSpec == ResolverSpecInit /\ [][ResolverNext]_vars

\* One AsyncDownloader: tasks are enqueued, the workers run, the caller
\* waits for the queue.
DownloaderSpecInit ==
    /\ MgrInit
    /\ disk = NoFiles
    /\ DepQuiet
    /\ OrchQuiet
    /\ PoolQuiet
    /\ MatchQuiet
    /\ VerifierQuiet
    /\ ClientQuiet
    /\ ResolverQuiet
    /\ DownloaderQuiet

DownloaderSpec == DownloaderSpecInit /\ [][DownloaderNext]_vars

Init ==
    /\ MgrInit
    /\ DepQuiet
    /\ OrchQuiet
    /\ PoolQuiet
    /\ MatchQuiet
    /\ VerifierQuiet
    /\ ClientQuiet
    /\ ResolverQuiet
    /\ DownloaderQuiet

\* One run of the orchestrator, over the configurations, the graphs and the
\* API answers of the model.
OrchSpecInit ==
    /\ MgrInit
    /\ disk = NoFiles
    /\ graph \in OrchGraphs
    /\ status \in [Projects -> Statuses]
    /\ DepIdle
    /\ OrchInit
    /\ PoolQuiet
    /\ MatchQuiet
    /\ VerifierQuiet
    /\ ClientQuiet
    /\ ResolverQuiet
    /\ DownloaderQuiet

OrchSpec == OrchSpecInit /\ [][OrchNext]_vars

\* Each awaited call of the orchestrator's coroutine is answered.
OrchFairSpec == OrchSpec /\ WF_vars(OrchNext)

\* One configured max_concurrent on its way to the worker pool.
PoolSpecInit ==
    /\ MgrInit
    /\ disk = NoFiles
    /\ DepQuiet
    /\ OrchQuiet
    /\ PoolConfigured
    /\ MatchQuiet
    /\ VerifierQuiet
    /\ ClientQuiet
    /\ ResolverQuiet
    /\ DownloaderQuiet

PoolSpec == PoolSpecInit /\ [][PoolNext]_vars

\* One call of the verifier on the files of a download directory.
VerifySpecInit ==
    /\ MgrInit
    /\ DepQuiet
    /\ OrchQuiet
    /\ PoolQuiet
    /\ MatchQuiet
    /\ VerifierCalled
    /\ ClientQuiet
    /\ ResolverQuiet
    /\ DownloaderQuiet

VerifySpec == VerifySpecInit /\ [][VerifyNext]_vars

\* One call of the API client.
ClientSpecInit ==
    /\ MgrInit
    /\ disk = NoFiles
    /\ DepQuiet
    /\ OrchQuiet
    /\ PoolQuiet
    /\ MatchQuiet
    /\ VerifierQuiet
    /\ ClientCalled
    /\ ResolverQuiet
    /\ DownloaderQuiet

ClientSpec == ClientSpecInit /\ [][ClientNext]_vars

\* One call of should_include.
MatchSpecInit ==
    /\ MgrInit
    /\ disk = NoFiles
    /\ DepQuiet
    /\ OrchQuiet
    /\ PoolQuiet
    /\ MatchCalled
    /\ VerifierQuiet
    /\ ClientQuiet
    /\ ResolverQuiet
    /\ DownloaderQuiet

MatchNext == ShouldInclude

MatchSpec == MatchSpecInit /\ [][MatchNext]_vars

\* The manager driven as the orchestrator drives it: enqueue calls, then
\* run().
Next ==
    \/ \E r \in Req : Enqueue(r)
    \/ WorkerNext
    \/ Run
    \/ RunJoinReturn
    \/ StopReturn

Spec == Init /\ [][Next]_vars

\* The manager driven by run(), or as a context manager: enqueue calls,
\* then start() (__aenter__) and, at any later moment, stop() (__aexit__).
CtxNext ==
    \/ \E r \in Req : Enqueue(r)
    \/ WorkerNext
    \/ Start
    \/ Stop
    \/ Run
    \/ RunJoinReturn
    \/ StopReturn

CtxSpec == Init /\ [][CtxNext]_vars

\* The event loop does not stop while a coroutine can run.
CtxFairSpec == CtxSpec /\ WF_vars(CtxNext)

\* The same for the producers that enqueue only the first three requests
\* (two remote files and the local file), with the scheduling of the event
\* loop.
FewRequests == {1, 2, 3}
FewNext ==
    \/ \E r \in FewRequests : Enqueue(r)
    \/ WorkerNext
    \/ Start
    \/ Stop
    \/ Run
    \/ RunJoinReturn
    \/ StopReturn

FewSpec == Init /\ [][FewNext]_vars
FewFairSpec == FewSpec /\ WF_vars(FewNext)

\* The same, for a manager made without a session, with an open session of
\* the caller, or with a session the caller has closed already.
SessionSpecInit ==
    /\ MgrStart
    /\ session \in {NewSession(injected) :
                        injected \in {"none", "open", "closed"}}
    /\ DepQuiet
    /\ OrchQuiet
    /\ PoolQuiet
    /\ MatchQuiet
    /\ VerifierQuiet
    /\ ClientQuiet
    /\ ResolverQuiet
    /\ DownloaderQuiet

SessionSpec == SessionSpecInit /\ [][CtxNext]_vars

\* The event loop does not stop while a coroutine can run: some worker that
\* can take a task or whose await is over goes on, or the caller of run()
\* does.  (No step can repeat for ever, so this is all the scheduling the
\* run needs.)
FairSpec == Spec /\ WF_vars(Next)

(***************************************************************************)
(* The claims about the download manager                                   *)
(***************************************************************************)
Range(seq) == {seq[i] : i \in DOMAIN seq}
Occurrences(seq, x) == Cardinality({i \in DOMAIN seq : seq[i] = x})
RemoteReq == {r \in Req : ~StartsWithFile(Requests[r].url)}
Path(r) == Requests[r].filename
Counters == {"completed", "failed", "skipped"}
RunReturned == callerpc = "run_done"

\* C1: one task is placed on the queue per distinct (url, filename) pair:
\* the first enqueue call for a pair returns true and adds one to
\* stats.total, every later call for the pair returns false and changes
\* neither the queue nor stats.total.  (The requests of the model are
\* pairwise distinct pairs.)
C1_OneTaskPerPair ==
    /\ \A r \in Req :
         calls[r] # <<>> =>
            /\ calls[r][1] = TRUE
            /\ \A i \in 2 .. Len(calls[r]) : calls[r][i] = FALSE
            /\ placed[r] = 1
    /\ stats.total = Cardinality({r \in Req : calls[r] # <<>>})

C3_AtMostMaxRetriesPlusOneAttempts ==
    [][\A r \in Req :
          /\ gets'[r] <= MaxRetries + 1
          /\ outcome[r] # <<>> => gets'[r] = gets[r]]_vars

C3_Witness ==
    \E r \in RemoteReq :
        /\ gets[r] = MaxRetries + 1
        /\ outcome[r] = <<"failed">>

Matches(r) ==
    /\ disk[Path(r)] # Absent
    /\ Requests[r].sha1 # NoSha => Digest(disk[Path(r)]) = Requests[r].sha1

\* C5: when an attempt after the first one succeeds (the body is written
\* and passes the check), the task is counted completed and nothing else:
\* completed + 1, failed unchanged, the filename not in the failed list.
C5_SuccessAfterRetryIsCompleted ==
    [][\A w \in Workers :
          LET t == worker[w].task IN
          (/\ worker[w].pc = "verify"
           /\ worker[w].attempt >= 1
           /\ Matches(t)
           /\ worker'[w] # worker[w])
          => /\ stats' = [stats EXCEPT !.completed = @ + 1]
             /\ outcome'[t] = <<"completed">>
             /\ Path(t) \notin Range(failed_downloads')]_vars

C5_Witness ==
    \E r \in RemoteReq :
        /\ outcome[r] = <<"completed">>
        /\ gets[r] = MaxRetries + 1
        /\ Path(r) \notin Range(failed_downloads)

\* Request r is counted failed in this step.
FailsNow(r) == "failed" \notin Range(outcome[r]) /\ "failed" \in Range(outcome'[r])

C7_RunReturns ==
    /\ (callerpc = "run_join") ~> RunReturned
    /\ [](RunReturned =>
            /\ Waiting = {}
            /\ unfinished = 0
            /\ \A r \in Req : done[r] = placed[r]
            /\ \A w \in Workers : worker[w].pc = "dead")

C7_Witness ==
    /\ RunReturned
    /\ stats.total = 3
    /\ stats.failed >= 1

\* The worker passes download_file's is_valid test for request r in this
\* step: at once when it takes the task, or after the file was read.
PassesValidTest(w, r) ==
    \/ /\ TakeRemote(w)
       /\ queue'[r] < queue[r]
       /\ worker'[w].pc # "check"
    \/ /\ Check(w)
       /\ worker[w].task = r

\* C8: a remote task whose destination exists and is valid (it has the
\* expected SHA1, or none is expected) is counted skipped, no GET is issued
\* for it, and the file, completed and failed stay as they are.
C8_ValidFileIsSkipped ==
    [][\A w \in Workers, r \in RemoteReq :
          (PassesValidTest(w, r) /\ Matches(r))
          => /\ stats' = [stats EXCEPT !.skipped = @ + 1]
             /\ outcome'[r] = <<"skipped">>
             /\ gets[r] = 0
             /\ gets'[r] = 0
             /\ disk' = disk]_vars

C8_Witness ==
    /\ outcome[1] = <<"skipped">>
    /\ gets[1] = 0
    /\ disk[Path(1)] = "body1"

RequiredOf(p) ==
    {graph[p][i].project_id :
        i \in {j \in DOMAIN graph[p] : graph[p][j].dependency_type = "required"}}

\* The project has a record, a matching version and a file.
Found(p) == status[p] = "ok"

RECURSIVE Closure(_)
Closure(S) ==
    LET N == S \cup {q \in UNION {RequiredOf(p) : p \in S} : Found(q)}
    IN  IF N = S THEN S ELSE Closure(N)

\* The projects reachable from the root version through required
\* dependencies, each project on the way being found.
Reachable == Closure({q \in RequiredOf(RootProject) : Found(q)})

\* The required dependencies of the root version and of the reachable
\* projects.
RequiredTargets ==
    RequiredOf(RootProject) \cup UNION {RequiredOf(p) : p \in Reachable}

\* C10: resolve returns exactly the projects reachable from the root version
\* through required dependencies; a project that is no required dependency
\* of the root version or of a reachable project is never looked up, never
\* followed and never returned.
C10_ResultIsRequiredClosure ==
    /\ dpc = "returned" => Range(dependencies) = Reachable
    /\ \A p \in Projects :
         (plook[p] > 0 \/ vlook[p] > 0 \/ p \in processed
            \/ p \in Range(dependencies))
         => p \in RequiredTargets

C10_Witness ==
    /\ dpc = "returned"
    /\ Len(dependencies) = 2
    /\ \E i \in DOMAIN graph[RootProject] :
         /\ graph[RootProject][i].dependency_type = "optional"
         /\ graph[RootProject][i].project_id \notin Range(dependencies)
         /\ plook[graph[RootProject][i].project_id] = 0
\* C11: on every dependency graph of the model, cyclic ones and a project
\* that requires itself included, a resolve call whose API calls are
\* answered ends: it returns, or it raises, and it raises only when an API
\* call it issued answered with an error status.
C11_ResolveTerminates ==
    /\ (dpc \in {"get_project", "get_version"}) ~> (dpc \in {"returned", "raised"})
    /\ [](dpc = "raised" =>
            \E p \in Projects : status[p] = "error" /\ plook[p] > 0)

\* resolve has returned from the version of a project that requires itself.
C11_Witness ==
    /\ dpc = "returned"
    /\ graph[RootProject] = <<DependencyInfo(RootProject, "required")>>
    /\ dependencies = <<RootProject>>

\* C12: during one resolve call at most one project lookup and one version
\* lookup are issued per project id, and no project id appears twice in the
\* list built; so also on the cycle A -> B -> A resolved from A's version.
C12_EachProjectLookedUpOnce ==
    /\ \A p \in Projects : plook[p] <= 1 /\ vlook[p] <= 1
    /\ \A i, j \in DOMAIN dependencies :
         dependencies[i] = dependencies[j] => i = j

\* resolve has returned from A's version on the cycle A -> B -> A, with one
\* lookup of each of the two projects.
C12_Witness ==
    /\ dpc = "returned"
    /\ graph["A"] = <<DependencyInfo("B", "required")>>
    /\ graph["B"] = <<DependencyInfo("A", "required")>>
    /\ plook["A"] = 1 /\ plook["B"] = 1
    /\ vlook["A"] = 1 /\ vlook["B"] = 1
    /\ Len(dependencies) = 2

\* The dependency looked up is answered with not-found in this step.
MissingNow == dpc = "get_project" /\ status[cur] = "no_project"

\* C13: a required dependency whose project is not found is passed over
\* without an exception: nothing is appended for it, no version lookup is
\* made for it, and the walk goes on with the next dependency or returns;
\* when resolve returns, every project reachable through found required
\* dependencies is in the list.
C13_MissingDependencyIsSkipped ==
    /\ [][MissingNow =>
            /\ dpc' \in {"get_project", "returned"}
            /\ dependencies' = dependencies
            /\ vlook' = vlook]_vars
    /\ [](dpc = "returned" =>
            /\ Reachable \subseteq Range(dependencies)
            /\ \A p \in Projects :
                 status[p] = "no_project" =>
                     p \notin Range(dependencies) /\ vlook[p] = 0)

\* The first required dependency of the root version was not found, the
\* second one, listed after it, is in the list returned.
C13_Witness ==
    /\ dpc = "returned"
    /\ graph[RootProject] =
           <<DependencyInfo("B", "required"), DependencyInfo("C", "required")>>
    /\ status["B"] = "no_project"
    /\ plook["B"] = 1
    /\ "C" \in Range(dependencies)
(***************************************************************************)
(* The claims about the orchestrator and its ModResolver                   *)
(***************************************************************************)
\* The projects enqueued during the pass of the i-th target game version.
EnqueuedIn(i) ==
    {orch.enqueued[k].project :
        k \in {j \in DOMAIN orch.enqueued : orch.enqueued[j].version = i}}

\* C14: the processed-set is reset at the start of each target game
\* version: with two game versions, what was processed and enqueued for the
\* earlier version is enqueued again for the later one.
C14_ProcessedSetResetPerVersion ==
    (orch.pc = "done" /\ config.download) =>
        \A i, j \in DOMAIN config.version :
            i < j => EnqueuedIn(i) \subseteq EnqueuedIn(j)

C16_OneLookupPerIdentifier ==
    \A id \in Identifiers : mod_resolver.lookups[id] <= 1

\* The project lookup that is awaited is answered with 404.
NotFoundNow ==
    /\ orch.pc = "mod_project"
    /\ LookupStatus(ModId(config.mods[orch.mi])) = "no_project"

\* C17: when the project lookup of a configured mod answers 404, no
\* exception is raised, the mod is appended to the skipped list and the loop
\* goes on with the next mod or with the download manager; run() raises only
\* if an API call answered with another error status, and without such an
\* answer it completes, the download manager having run for every version,
\* every mod that is not found being in the skipped list and every mod that
\* resolves having been enqueued.
C17_NotFoundModIsSkipped ==
    /\ [][NotFoundNow =>
            /\ orch'.skipped_mods =
                   Append(orch.skipped_mods, ModId(config.mods[orch.mi]))
            /\ orch'.pc \in {"mod_project", "mod_version", "run_manager"}
            /\ orch'.enqueued = orch.enqueued]_vars
    /\ [](orch.pc = "raised" => \E p \in Projects : status[p] = "error")
    /\ (orch.pc = "init" /\ \A p \in Projects : status[p] # "error")
           ~> (orch.pc = "done")
    /\ [](orch.pc = "done" =>
            /\ orch.ran = [i \in DOMAIN config.version |-> i]
            /\ \A j \in DOMAIN config.mods :
                 LET id == ModId(config.mods[j])
                 IN  /\ LookupStatus(id) = "no_project" =>
                           id \in Range(orch.skipped_mods)
                     /\ (LookupStatus(id) = "ok" /\ config.download) =>
                           ProjectOf(id) \in EnqueuedIn(1))

\* run() is over: the unknown mod x is in the skipped list, the mod A
\* configured after it was enqueued and the download manager ran.
C17_Witness ==
    /\ orch.pc = "done"
    /\ config.mods = <<StrEntry("x"), StrEntry("A")>>
    /\ "x" \in Range(orch.skipped_mods)
    /\ "A" \in EnqueuedIn(1)
    /\ orch.ran # <<>>

\* C18: an API error other than 404 met while resolving one mod or one of
\* its required dependencies does not abort the siblings: the remaining
\* configured mods are still resolved and the download manager is still run
\* for that version.
C18_ApiErrorIsConfined ==
    orch.pc = "raised" =>
        /\ orch.vi \in Range(orch.ran)
        /\ \A j \in DOMAIN config.mods :
             j > orch.mi => mod_resolver.lookups[ModId(config.mods[j])] > 0

ExcludedByOnlyVersion ==
    LET o == match.entry.only_version
    IN  /\ \/ o.type = "str" /\ o.items[1] # ""
           \/ o.type = "list" /\ Len(o.items) > 0
        /\ match.version \notin Range(o.items)

\* Every feature the entry lists is among the enabled features.
AllListedEnabled ==
    \A f \in Range(match.entry.feature.items) : f \in Range(match.features)

\* The call is over and was made with a dict entry that is not excluded by
\* only_version.
ReturnedForDict ==
    /\ match.pc = "returned"
    /\ match.entry.kind = "dict"
    /\ ~ExcludedByOnlyVersion

\* C20 as stated: for an entry that declares feature (a single value or a
\* list) and is not excluded by only_version, should_include returns false
\* exactly when every listed feature is enabled.
C20_FalseIffAllListedEnabled ==
    (ReturnedForDict /\ match.entry.feature.type # "none") =>
        (match.result = FALSE <=> AllListedEnabled)

\* The entry lists at least one feature: a non-empty string or a non-empty
\* list.
ListsAFeature ==
    LET f == match.entry.feature
    IN  \/ f.type = "str" /\ f.items[1] # ""
        \/ f.type = "list" /\ Len(f.items) > 0

\* C20 amended: for an entry that lists at least one feature and is not
\* excluded by only_version, should_include returns false exactly when every
\* listed feature is enabled, and true when at least one is not.
C20_FalseIffAllOfSomeListedEnabled ==
    (ReturnedForDict /\ ListsAFeature) =>
        (match.result = FALSE <=> AllListedEnabled)

\* The entry lists a and b, only a is enabled, and the entry is included.
C20_Witness ==
    /\ ReturnedForDict
    /\ match.entry.feature = ListValue(<<"a", "b">>)
    /\ match.features = <<"a">>
    /\ match.result = TRUE

\* The call is over and was made with a dict entry.
ReturnedDict ==
    /\ match.pc = "returned"
    /\ match.entry.kind = "dict"

\* The target version is none of the versions only_version lists.
VersionNotListed ==
    \A i \in DOMAIN match.entry.only_version.items :
        match.entry.only_version.items[i] # match.version

\* C21 as stated: for a dict entry that declares only_version (a single
\* value or a list), should_include returns false whenever the target
\* version is not among the listed versions, whatever feature and the
\* enabled features are.
C21_FalseWhenVersionNotListed ==
    (ReturnedDict /\ match.entry.only_version.type # "none"
                  /\ VersionNotListed) =>
        match.result = FALSE

\* only_version lists at least one version: a non-empty string or a
\* non-empty list.
ListsAVersion ==
    LET o == match.entry.only_version
    IN  \/ o.type = "str" /\ o.items[1] # ""
        \/ o.type = "list" /\ Len(o.items) > 0

\* C21 amended: for a dict entry whose only_version lists at least one
\* version, should_include returns false whenever the target version is not
\* among the listed versions, whatever feature and the enabled features
\* are.
C21_FalseWhenVersionNotAmongSomeListed ==
    (ReturnedDict /\ ListsAVersion /\ VersionNotListed) =>
        match.result = FALSE

\* only_version lists v1 and v2 is asked for; the entry lists the features
\* a and b and none is enabled, and the entry is excluded all the same.
C21_Witness ==
    /\ ReturnedDict
    /\ match.entry.only_version = StrValue("v1")
    /\ match.version = "v2"
    /\ match.entry.feature = ListValue(<<"a", "b">>)
    /\ match.features = <<>>
    /\ match.result = FALSE

(***************************************************************************)
(* The claim about the filter of the orchestrator                          *)
(***************************************************************************)
\* Entry mod does not apply to game version ver: its only_version lists
\* versions and ver is none of them, or it lists features and all of them
\* are enabled.
DoesNotApply(mod, ver) ==
    \/ /\ mod.only_version.items # <<>>
       /\ \A i \in DOMAIN mod.only_version.items :
             mod.only_version.items[i] # ver
    \/ /\ mod.feature.items # <<>>
       /\ \A i \in DOMAIN mod.feature.items :
             mod.feature.items[i] \in Range(config.features)

\* C22: the orchestrator applies the inclusion matcher to every configured
\* entry: a structured mod entry whose only_version does not contain the
\* current game version, or whose listed features are all enabled, is not
\* resolved for that version (no lookup is sent for it) and nothing is
\* enqueued for it.
C22_FilteredEntryIsNotResolved ==
    (orch.pc \in {"mod_project", "mod_version", "deps"}) =>
        LET mod == config.mods[orch.mi]
        IN  mod.kind # "str" => ~DoesNotApply(mod, config.version[orch.vi])

(***************************************************************************)
(* The claim about verify_sha1                                             *)
(***************************************************************************)
\* C23: verify_sha1(path, expected) is true exactly when the file exists
\* and expected is unset or the SHA1 of the file equals expected: with
\* expected unset it is true for an existing file and false for a missing
\* one.
C23_VerifyTrueIffExistsAndMatches ==
    (verifier.pc = "returned" /\ verifier.fn = "verify_sha1") =>
        LET held == disk[verifier.file_path]
        IN  verifier.result =
               (/\ held # Absent
                /\ \/ verifier.expected_sha1 = NoSha
                   \/ Digest(held) = verifier.expected_sha1)

(***************************************************************************)
(* The claims about the API client                                         *)
(***************************************************************************)
\* C24: get_project returns None when the API answers 404 and raises an
\* APIError that carries the status code of the response and the URL of the
\* request for every other status that is not 200; it returns a project
\* only for a 200 answer.
C24_ProjectOnlyFor200 ==
    (client.pc = "returned" /\ client.fn = "get_project") =>
        /\ client.status = 404 => client.result = ReturnedNone
        /\ client.status \notin {200, 404} =>
              /\ client.result.kind = "raise"
              /\ client.result.error.status_code = client.status
              /\ client.result.error.url = ProjectUrl(client.idx)
        /\ client.result.kind = "project" <=> client.status = 200

\* get_project for x was answered with 429 and raised an APIError with 429
\* and the URL of project x.
C24_Witness ==
    /\ client.pc = "returned"
    /\ client.fn = "get_project"
    /\ client.idx = "x"
    /\ client.status = 429
    /\ client.result.kind = "raise"
    /\ client.result.error = [status_code |-> 429, url |-> <<"project", "x">>]

\* specific_version is the id or the version_number of version v.
IsSpecific(v) ==
    \/ v.id = client.specific_version
    \/ v.version_number = client.specific_version

\* C25: get_version called with a specific_version that is neither the id
\* nor the version_number of any version of the non-empty filtered result
\* returns (None, None); when it matches, the matching version is returned
\* with its primary file.
C25_NoMatchIsNotFound ==
    (/\ client.pc = "returned"
     /\ client.fn = "get_version"
     /\ client.status = 200
     /\ client.versions # <<>>
     /\ client.specific_version # NoSpecific) =>
        IF \E i \in DOMAIN client.versions : IsSpecific(client.versions[i])
        THEN \E i \in DOMAIN client.versions :
                /\ IsSpecific(client.versions[i])
                /\ client.result.kind = "version"
                /\ client.result.id = client.versions[i].id
        ELSE client.result = ReturnedNone

(***************************************************************************)
(* The claims about the workers and stop()                                 *)
(***************************************************************************)
\* The number of tasks of request r taken from the queue and not marked
\* done yet.
InFlight(r) == placed[r] - queue[r] - done[r]

\* C30: at every moment the number of tasks that were taken from the queue
\* and are not marked done yet is at most max_concurrent, each of them being
\* the one task of a different live worker.
C30_InFlightAtMostMaxConcurrent ==
    /\ InFlight(1) + InFlight(2) + InFlight(3) + InFlight(4) <= MaxConcurrent
    /\ \A r \in Req :
          /\ InFlight(r) >= 0
          /\ InFlight(r) = Cardinality({w \in Workers : worker[w].task = r})

\* Both workers handle a task while a third task waits in the queue.
C30_Witness ==
    /\ \A w \in Workers : worker[w].task # 0
    /\ InFlight(1) + InFlight(2) + InFlight(3) + InFlight(4) = MaxConcurrent
    /\ Waiting # {}

\* stop() has returned.
Stopped == callerpc \in {"stopped", "run_done"}

\* C26: after stop() returns, every session the manager made itself is
\* closed, and the manager never closes a session of the caller; this holds
\* also when the session of the caller was closed before a download.
C26_OwnSessionsClosedAfterStop ==
    /\ [](Stopped => session.created # "open")
    /\ [][session'.injected = session.injected]_vars

\* Worker w sleeps between two attempts and stop() has cancelled it.
CancelledInSleep(w) ==
    /\ worker[w].pc = "sleep"
    /\ worker[w].cancel

\* C27: a worker that stop() cancels while it sleeps between two attempts
\* of a task exits: its next step ends it, no attempt is started and no task
\* is taken in that step, and a worker that has exited does nothing more.
C27_CancelledSleeperExits ==
    [][\A w \in Workers :
          /\ CancelledInSleep(w) =>
                \/ worker'[w] = worker[w]
                \/ /\ worker'[w].pc = "dead"
                   /\ gets' = gets
                   /\ queue' = queue
          /\ worker[w].pc = "dead" => worker'[w] = worker[w]]_vars

\* stop() was called while worker 1 slept after the first attempt of a
\* task failed.
C27_Witness ==
    /\ callerpc = "stop"
    /\ CancelledInSleep(1)
    /\ worker[1].attempt = 0
    /\ gets[worker[1].task] = 1

\* The workers that hold a task of request r.
Holding(r) == {w \in Workers : worker[w].task = r}

\* C28: task_done is called exactly once for every task a worker obtains,
\* whether download_file returns, raises or is cancelled (the tasks taken
\* are those marked done and those a worker still holds, and one step marks
\* at most one task done); queue.join() returns only when every enqueued
\* task is marked done; and no task stays in flight for ever.
C28_TaskDoneOncePerTask ==
    /\ [](\A r \in Req :
            done[r] + Cardinality(Holding(r)) = placed[r] - queue[r])
    /\ [][\A r \in Req : done'[r] \in {done[r], done[r] + 1}]_vars
    /\ [][(callerpc = "run_join" /\ callerpc' # "run_join") =>
             \A r \in Req : done[r] = placed[r]]_vars
    /\ \A r \in Req : (InFlight(r) > 0) ~> (InFlight(r) = 0)

\* stop() has returned after it cancelled the download of request 1 in its
\* first attempt: the task is marked done and counted in no counter.
C28_Witness ==
    /\ callerpc = "stopped"
    /\ gets[1] = 1
    /\ done[1] = 1
    /\ outcome[1] = <<>>

(***************************************************************************)
(* The claim about local files                                             *)
(***************************************************************************)
\* The URL of request r begins with file://.
IsLocal(r) ==
    LET url == Requests[r].url
    IN  /\ Len(url) >= 7
        /\ <<url[1], url[2], url[3], url[4], url[5], url[6], url[7]>> =
               <<"f", "i", "l", "e", ":", "/", "/">>

C31_BackoffDoubles ==
    \A r \in Req :
        /\ Len(slept[r]) <= MaxRetries
        /\ \A k \in DOMAIN slept[r] :
              /\ slept[r][k] = RetryDelay * 2 ^ (k - 1)
              /\ k > 1 => slept[r][k] > slept[r][k - 1]
        /\ Len(slept[r]) \in {gets[r] - 1, gets[r]} \/ gets[r] = 0
        /\ outcome[r] = <<"failed">> /\ gets[r] > 0 =>
              Len(slept[r]) = gets[r] - 1

\* The task of request 1 failed for good after max_retries + 1 attempts
\* and max_retries sleeps.
C31_Witness ==
    /\ outcome[1] = <<"failed">>
    /\ gets[1] = MaxRetries + 1
    /\ Len(slept[1]) = MaxRetries
    /\ Len(slept[1]) >= 2

\* C35: the list resolve returns never contains the project the root
\* version belongs to, also when a required dependency requires that
\* project back.
C35_RootProjectNotReturned ==
    dpc = "returned" => RootProject \notin Range(dependencies)

\* The projects reachable from the version of project root through required
\* dependencies, each project on the way being found: what a resolve call
\* that runs alone returns for it.
ReachableFrom(root) == Closure({q \in RequiredOf(root) : Found(q)})

\* C32: the list a resolve call returns holds exactly the projects
\* reachable from its root version through required dependencies, whatever
\* an earlier or an overlapping call on the same instance marked: none of
\* them is left out and no other project is in it.
C32_ResultIndependentOfOtherCalls ==
    \A c \in Callers :
        resolver.call[c].pc = "returned" =>
            Range(resolver.call[c].result) =
                ReachableFrom(resolver.call[c].root)

\* C36: the list a resolve call returned holds afterwards what it held when
\* the call returned, whatever resolve and clear_cache calls follow.
C36_ReturnedListKeepsContents ==
    \A c \in Callers :
        resolver.call[c].pc = "returned" =>
            ReturnedList(c) = resolver.call[c].result

\* C40: for each task of AsyncDownloader, active_downloads is decremented
\* at most once and task_done is called at most once, both exactly once
\* when the worker is through with the task; active_downloads is never
\* negative; and wait_until_complete returns only when every task enqueued
\* by then has been taken from the queue and finished by its worker.
C40_OneReleasePerTask ==
    /\ \A t \in DTasks :
          /\ downloader.decrements[t] <= 1
          /\ downloader.task_dones[t] <= 1
          /\ downloader.decrements[t] = downloader.task_dones[t]
    /\ downloader.active_downloads >= 0
    /\ downloader.waiter = "returned" =>
          \A t \in 1 .. downloader.returned_at :
              /\ t \notin Range(downloader.download_queue)
              /\ \A w \in DWorkers :
                    downloader.workers[w].task = t =>
                        downloader.workers[w].pc \notin {"download"}

\* C33: at every point of a run the failed list holds as many filenames as
\* stats.failed counts, for remote downloads and file:// copies alike.
C33_FailedListMatchesCounter ==
    Len(failed_downloads) = stats.failed

\* C34: an enqueue call (DownloadQueue.put) returns False for a task only
\* if a task with the same url and the same filename was put on the queue
\* before.  (The requests of the model are pairwise distinct pairs.)
C34_FalseOnlyForSamePair ==
    \A r \in Req :
        \A i \in DOMAIN calls[r] :
            calls[r][i] = FALSE => \E j \in 1 .. (i - 1) : calls[r][j] = TRUE

\* C38: whenever a worker takes a task from the queue, no task of strictly
\* higher priority (a smaller priority value: HIGH before NORMAL before
\* LOW) is waiting in the queue at that moment.
C38_TakenInPriorityOrder ==
    [][\A t \in Req :
          queue'[t] < queue[t] =>
              \A q \in Req :
                  queue[q] > 0 => Requests[t].priority <= Requests[q].priority]_vars

\* Tasks of all three priorities were put on the queue; the HIGH one has
\* been taken while the NORMAL and the LOW one are still waiting.
C38_Witness ==
    /\ started
    /\ placed[2] = 1 /\ placed[3] = 1 /\ placed[4] = 1
    /\ Requests[2].priority = HIGH
    /\ Requests[4].priority = NORMAL
    /\ Requests[3].priority = LOW
    /\ queue[2] = 0
    /\ queue[4] = 1
    /\ queue[3] = 1

\* C37: after stop() has returned no destination path holds a partially
\* written file, also when stop() cancelled a worker that was streaming a
\* download to disk.
C37_NoPartialFileAfterStop ==
    Stopped => \A r \in Req : disk[Requests[r].filename] # Partial

\* C39: the file list handed to the mrpack builder in REFERENCE mode for a
\* target game version holds only files recorded while that version was
\* processed, none recorded during an earlier version pass of the run.
C39_MrpackFilesOfOwnVersion ==
    \A i \in DOMAIN orch.handed :
        \A j \in DOMAIN orch.handed[i].files :
            orch.handed[i].files[j].version = orch.handed[i].version
====
